---- MODULE Spec2Model ----
\* The interaction engine of the LV inverter viewer: pointer handlers, completion
\* toggling, marquee selection, notes, and the snapshot history with undo/redo.
\* The main program is the App component that records history
\* (src/unnamed/part_000); src/src/App.jsx is the variant whose history is never
\* written (variant = "App").
EXTENDS Integers, Sequences, FiniteSets, TLC

\* ---------------------------------------------------------------- constants
\* Numbers the handlers hard-code.
HistoryCap == 50
ClickRadius == 30
NoteRadius == 15
DragThreshold == 5
PanThreshold == 2
Padding == 50

\* ------------------------------------------------------------------- bounds
\* Snapshots pushed after the mount snapshot, and notes created, in Spec.
MaxPush == 2
MaxNotes == 1
\* The same, in SpecGesture.
GesturePush == 1
GestureNotes == 0
\* The same, in SpecDoc.
DocPush == 2
DocNotes == 1
\* Snapshots pushed after the mount snapshot, in SpecCap (beyond HistoryCap).
CapPush == 52
\* Largest pan of the view away from the canvas centre, per axis, in pixels.
MaxPan == 5
\* The same, and the largest scale, in SpecView and SpecLoad.
ViewPan == 100
MaxScale == 20
\* Largest pan and scale in SpecRender.
RenderPan == 100
RenderScale == 20
\* Vertices of a line or of a ring, in SpecGeom.
MaxVertices == 3
OwnerPush == 2
OwnerNotes == 1
OwnerPan == 80
NotePush == 3
NoteNotes == 2
PinchPush == 2
PinchNotes == 2
PinchPan == 0
PinchScale == 10
TouchPush == 1
TouchNotes == 0
OwnerScale == 20
OwnerMinScale == 10

\* ------------------------------------------------------------------- inputs
Null == [null |-> TRUE]

\* The canvas size set by handleResize (window.innerWidth x window.innerHeight).
Canvas == [width |-> 300, height |-> 300]

\* Point features of the inv_id layer, in file order: two inverters 20 world
\* units apart (their click discs overlap at the fitted scale).
LabelA == [position |-> <<0, 0>>, text |-> "A", boxId |-> "A"]
LabelB == [position |-> <<20, 0>>, text |-> "B", boxId |-> "B"]

\* A loaded data set: the labels and the coordinates of every other layer.
\* (In src/src/App.jsx the labels are made from the box features; the boxes
\* of these data sets have no area, so getBoxOffset is zero and both variants
\* hit-test the label positions.)
DataTwo == [labels |-> <<LabelA, LabelB>>, otherCoords |-> {<<0, 0>>, <<200, 200>>}]
DataOne == [labels |-> <<LabelA>>, otherCoords |-> {<<0, 0>>, <<200, 200>>}]

\* The files the load requests, in request order.
Files == <<"inv_id", "table_id", "poly", "boudnry_line">>
FileSet == {Files[i] : i \in 1..Len(Files)}

\* What the server holds, per file: the Point features with a text (labels)
\* and the coordinates of every other feature.
FilesTwo ==
  [inv_id |-> [labels |-> DataTwo.labels, coords |-> {}],
   table_id |-> [labels |-> <<>>, coords |-> DataTwo.otherCoords],
   poly |-> [labels |-> <<>>, coords |-> {<<0, 0>>}],
   boudnry_line |-> [labels |-> <<>>, coords |-> {<<200, 200>>}]]
FilesOne == [FilesTwo EXCEPT !.inv_id.labels = DataOne.labels]
\* A site of 10 by 10 world units.
FilesTen ==
  [inv_id |-> [labels |-> <<LabelA>>, coords |-> {}],
   table_id |-> [labels |-> <<>>, coords |-> {<<0, 0>>, <<10, 10>>}],
   poly |-> [labels |-> <<>>, coords |-> {<<0, 0>>}],
   boudnry_line |-> [labels |-> <<>>, coords |-> {<<10, 10>>}]]
\* A site of 20 by 20 world units: the fitted scale is 10 pixels per unit.
FilesView ==
  [inv_id |-> [labels |-> <<[position |-> <<10, 10>>, text |-> "A", boxId |-> "A"]>>,
               coords |-> {}],
   table_id |-> [labels |-> <<>>, coords |-> {<<0, 0>>, <<20, 20>>}],
   poly |-> [labels |-> <<>>, coords |-> {<<0, 20>>}],
   boudnry_line |-> [labels |-> <<>>, coords |-> {<<20, 0>>}]]

\* The window sizes a resize can produce.
Sizes == {[width |-> 300, height |-> 300], [width |-> 500, height |-> 500],
          [width |-> 500, height |-> 300]}

\* ... in the view specification.
ViewSizes == {[width |-> 300, height |-> 300], [width |-> 500, height |-> 300]}

\* Wheel positions and finger positions: on one slanted line, 100 pixels
\* apart, so that the distance of any two of them is a whole number.
ViewPoints == {<<90, 70>>, <<150, 150>>, <<210, 230>>}
\* Mouse positions on the fitted site: label A's projection and a point a
\* whole distance of 100 away from it.
OwnerPoints == {<<150, 150>>, <<210, 230>>}
\* Taps on the fitted site (10 px per world unit): label A's projection, a
\* point 20 px to its right, and the point between them, within the note
\* radius of both.
NotePoints == {<<150, 150>>, <<160, 150>>, <<170, 150>>}
\* Where a finger lands; it then moves over OwnerPoints, so that two fingers
\* are 100 or 200 apart.
OwnerTouchStarts == {<<90, 70>>, <<150, 150>>}
\* deltaY > 0 and deltaY <= 0.
WheelDirs == {"out", "in"}

\* World positions projected to the screen and back.
WorldPoints == {<<0, 0>>, <<20, 20>>, <<10, 10>>, <<0, 20>>, <<20, 7>>}

\* Pointer positions (canvas pixels) the events are drawn from. At the fitted
\* view label A projects to PtA and label B to PtB; PtNear is within the drag
\* threshold of PtA.
PtA == <<50, 250>>
PtB == <<70, 250>>
PtNear == <<54, 253>>
Points == {PtA, PtB, PtNear}
CapPoints == {PtA}
DocPoints == {PtA, PtB}

Buttons == {0, 1, 2}
Texts == {"a"}
Modes == {"test", "termination"}

\* ----------------------------------------------------------------- geometry
Abs(n) == IF n < 0 THEN -n ELSE n
Min2(a, b) == IF a <= b THEN a ELSE b
Max2(a, b) == IF a >= b THEN a ELSE b

SetMin(S) == CHOOSE m \in S : \A n \in S : m <= n
SetMax(S) == CHOOSE m \in S : \A n \in S : m >= n

\* GeoJSON geometries handed to getBoundsAndCenter. Coordinates are multiples
\* of 12, so that the mean of up to four vertices is a whole number.
GeomPoints == {<<0, 0>>, <<12, 24>>, <<24, 12>>}
Lines == UNION {[1..n -> GeomPoints] : n \in 0..MaxVertices}
Hole == <<<<12, 12>>>>
Geometries ==
  {[type |-> "LineString", coordinates |-> l] : l \in Lines}
    \cup {[type |-> "Polygon", coordinates |-> <<>>]}
    \cup {[type |-> "Polygon", coordinates |-> <<l>>] : l \in Lines}
    \cup {[type |-> "Polygon", coordinates |-> <<l, Hole>>] : l \in Lines}
    \cup {[type |-> "Point", coordinates |-> pt] : pt \in GeomPoints}

\* What a call does: it returns null or a value, or it throws.
ReturnedNull == [kind |-> "null"]
Threw(e) == [kind |-> "throw", error |-> e]

RECURSIVE SeqSum(_)
SeqSum(q) == IF q = <<>> THEN 0 ELSE Head(q) + SeqSum(Tail(q))

\* The summary of a non-empty coordinate list.
Summarise(coords) ==
  LET lats == [i \in 1..Len(coords) |-> coords[i][2]]
      lngs == [i \in 1..Len(coords) |-> coords[i][1]]
      latSet == {lats[i] : i \in 1..Len(lats)}
      lngSet == {lngs[i] : i \in 1..Len(lngs)}
  IN [kind |-> "value",
      center |-> <<SeqSum(lngs) \div Len(lngs), SeqSum(lats) \div Len(lats)>>,
      area |-> (SetMax(latSet) - SetMin(latSet)) * (SetMax(lngSet) - SetMin(lngSet))]

\* getBoundsAndCenter. geometry.coordinates[0] of a polygon without rings is
\* undefined, and reading its length throws.
getBoundsAndCenter(g) ==
  IF g.type = "LineString"
  THEN IF Len(g.coordinates) = 0 THEN ReturnedNull ELSE Summarise(g.coordinates)
  ELSE IF g.type = "Polygon"
  THEN IF Len(g.coordinates) = 0 THEN Threw("TypeError")
       ELSE IF Len(g.coordinates[1]) = 0 THEN ReturnedNull
       ELSE Summarise(g.coordinates[1])
  ELSE ReturnedNull

\* extractCoords over every feature of every loaded layer.
AllCoords(data) ==
  {data.labels[i].position : i \in 1..Len(data.labels)} \cup data.otherCoords

\* A load that gives up on every file when one of them fails (Promise.all
\* without the catch of each request).
DataOfAllOrNothing(files, ok) ==
  IF ok = FileSet
  THEN [layers |-> ok, labels |-> files.inv_id.labels,
        otherCoords |-> UNION {files[f].coords : f \in ok}]
  ELSE [layers |-> {}, labels |-> <<>>, otherCoords |-> {}]

\* What the load stores when the files `ok` arrived and the others failed: the
\* layers, the labels of inv_id and the coordinates of the other features.
DataOf(files, ok) ==
  [layers |-> ok,
   labels |-> IF "inv_id" \in ok THEN files.inv_id.labels ELSE <<>>,
   otherCoords |-> UNION {files[f].coords : f \in ok}]

\* The bounds computed when the load settles. The data sets keep the centre
\* integral, so the halving is exact.
ComputeBounds(coords) ==
  IF coords = {} THEN Null
  ELSE LET lngs == {c[1] : c \in coords}
           lats == {c[2] : c \in coords}
           minLng == SetMin(lngs)
           maxLng == SetMax(lngs)
           minLat == SetMin(lats)
           maxLat == SetMax(lats)
       IN [minLng |-> minLng, maxLng |-> maxLng, minLat |-> minLat, maxLat |-> maxLat,
           width |-> maxLng - minLng, height |-> maxLat - minLat,
           centerLng |-> (minLng + maxLng) \div 2,
           centerLat |-> (minLat + maxLat) \div 2]

\* The doubles that are not finite, encoded beyond every number the model
\* computes with.
Infinity == 1000000000
NegInfinity == -1000000000
NaN == -999999999
IsFinite(x) == x \notin {Infinity, NegInfinity, NaN}

\* The division of two finite doubles: x/0 is an infinity, 0/0 is NaN. The
\* data sets and window sizes make every finite quotient exact.
JsDiv(a, b) ==
  IF b /= 0 THEN a \div b
  ELSE IF a > 0 THEN Infinity
  ELSE IF a < 0 THEN NegInfinity
  ELSE NaN

\* The sum, difference and product of two doubles: NaN spreads, opposite
\* infinities add up to NaN, and an infinity times zero is NaN.
JsAdd(a, b) ==
  IF a = NaN \/ b = NaN THEN NaN
  ELSE IF IsFinite(a) /\ IsFinite(b) THEN a + b
  ELSE IF IsFinite(a) THEN b
  ELSE IF IsFinite(b) \/ a = b THEN a
  ELSE NaN

JsNeg(a) ==
  IF a = NaN THEN NaN
  ELSE IF a = Infinity THEN NegInfinity
  ELSE IF a = NegInfinity THEN Infinity
  ELSE 0 - a

JsSub(a, b) == JsAdd(a, JsNeg(b))

JsMul(a, b) ==
  IF a = NaN \/ b = NaN THEN NaN
  ELSE IF IsFinite(a) /\ IsFinite(b) THEN a * b
  ELSE IF a = 0 \/ b = 0 THEN NaN
  ELSE IF (a > 0) = (b > 0) THEN Infinity
  ELSE NegInfinity

\* Math.min of two doubles.
JsMin(a, b) == IF a = NaN \/ b = NaN THEN NaN ELSE Min2(a, b)

\* A fit that leaves no margin around the site.
FitViewNoPadding(b, canvas) ==
  LET baseScale == JsMin(JsDiv(canvas.width, b.width), JsDiv(canvas.height, b.height))
  IN [offsetX |-> canvas.width \div 2, offsetY |-> canvas.height \div 2,
      scale |-> baseScale, baseScale |-> baseScale]

\* The view the bounds effect stores.
FitView(b, canvas) ==
  LET availableWidth == canvas.width - Padding * 2
      availableHeight == canvas.height - Padding * 2
      scaleX == JsDiv(availableWidth, b.width)
      scaleY == JsDiv(availableHeight, b.height)
      baseScale == JsMin(scaleX, scaleY)
  IN [offsetX |-> canvas.width \div 2, offsetY |-> canvas.height \div 2,
      scale |-> baseScale, baseScale |-> baseScale]

\* The zoom factors of handleWheel, 0.9 and 1.1, as fractions.
ZoomOut == [num |-> 9, den |-> 10]
ZoomIn == [num |-> 11, den |-> 10]

\* A zoom that scales the offsets about the canvas origin instead of the
\* zoom position.
ZoomViewOrigin(v, x, y, num, den) ==
  [v EXCEPT !.scale = (v.scale * num) \div den,
            !.offsetX = (v.offsetX * num) \div den,
            !.offsetY = (v.offsetY * num) \div den]

\* The zoom of handleWheel and of the two-finger handleTouchMove about the
\* position (x, y) by the factor num/den.
ZoomView(v, x, y, num, den) ==
  [v EXCEPT !.scale = (v.scale * num) \div den,
            !.offsetX = x - ((x - v.offsetX) * num) \div den,
            !.offsetY = y - ((y - v.offsetY) * num) \div den]

\* The zooms the model follows: those whose products are whole numbers.
ZoomExact(v, x, y, num, den) ==
  /\ (v.scale * num) % den = 0
  /\ ((x - v.offsetX) * num) % den = 0
  /\ ((y - v.offsetY) * num) % den = 0

\* The limits of SpecRender.
RenderLimits ==
  [push |-> 0, notes |-> 0, pan |-> RenderPan, scale |-> RenderScale, minScale |-> 0,
   device |-> "any"]

\* The views the model follows: offsets and scale within the limits.
WithinView(v, cv, lim) ==
  /\ Abs(v.offsetX - cv.width \div 2) <= lim.pan
  /\ Abs(v.offsetY - cv.height \div 2) <= lim.pan
  /\ v.scale >= lim.minScale
  /\ v.scale <= lim.scale

\* Math.sqrt(dx * dx + dy * dy) of two touch positions; the finger positions
\* of the model have whole distances.
Dist(a, b) ==
  LET dx == b[1] - a[1]
      dy == b[2] - a[2]
  IN CHOOSE r \in 0..(Abs(dx) + Abs(dy)) : r * r = dx * dx + dy * dy

\* The pan step of handleMouseMove and of the one-finger handleTouchMove.
PanView(v, dx, dy) == [v EXCEPT !.offsetX = @ + dx, !.offsetY = @ + dy]

worldToScreen(b, v, lng, lat) ==
  IF b = Null THEN [x |-> 0, y |-> 0]
  ELSE [x |-> JsAdd(JsMul(JsSub(lng, b.centerLng), v.scale), v.offsetX),
        y |-> JsAdd(JsMul(JsSub(b.centerLat, lat), v.scale), v.offsetY)]

\* An inverse that does not flip the vertical axis back.
screenToWorldNoFlip(b, v, screenX, screenY) ==
  IF b = Null THEN <<0, 0>>
  ELSE <<JsAdd(JsDiv(screenX - v.offsetX, v.scale), b.centerLng),
         JsAdd(b.centerLat, JsDiv(screenY - v.offsetY, v.scale))>>

\* The positive view scales of the model divide every pixel difference
\* exactly; at scale 0 the quotients are infinities or NaN.
screenToWorld(b, v, screenX, screenY) ==
  IF b = Null THEN <<0, 0>>
  ELSE <<JsAdd(JsDiv(screenX - v.offsetX, v.scale), b.centerLng),
         JsSub(b.centerLat, JsDiv(screenY - v.offsetY, v.scale))>>

\* Math.sqrt(dx^2 + dy^2) < r, compared on the squares.
\* A distance that is infinite or NaN is within no radius.
WithinRadius(px, py, x, y, r) ==
  /\ IsFinite(x) /\ IsFinite(y)
  /\ (px - x) * (px - x) + (py - y) * (py - y) < r * r

\* -------------------------------------------------------------------- state
VARIABLES
  variant,          \* "part_000" (records history) or "App" (src/src/App.jsx)
  limits,           \* the bounds in force: snapshots pushed, notes created
  bounds, inverterLabels, viewState,
  activeMode, noteMode,
  completedBoxes,   \* the Set of completed box ids
  notes,            \* the notes array: references into heap, in list order
  heap,             \* the note objects, by reference
  noteEditor,       \* Null or [noteId] (x and y only place the popup)
  history,          \* snapshots [completedBoxes, notes]; notes are references
  historyIndex,     \* 0-based as in the code, -1 when nothing was pushed
  selectionBoxRef,  \* Null or [startX, startY, endX, endY, action]
  isPanning, hasMoved, lastMouse,
  now,              \* Date.now(): the next note id
  pressed,          \* the mouse buttons held down
  pointer,          \* where the pointer is while a gesture is under way
  clickPending,     \* the browser owes the canvas the click of a left release
  pushed,           \* per history entry, its contents when it was pushed
  nPush,            \* snapshots pushed since the mount snapshot
  lastEvent,        \* the kind of the event handled last: "release", "click", "undo" or
                    \* "undoAtStart" (index 0 or less), "redo" or "redoAtEnd", "other"
  stage,            \* "toggles": only toggles since mount; "undone": then one undo;
                    \* "redone": then one redo; "off": anything else
  toggleLog,        \* completedBoxes at mount and after each toggle, while stage /= "off"
  lastToggle,       \* Null or the toggling click just made: [pt, view, before, again]
  dragExceeded,     \* the marquee gesture's pointer was ever beyond the threshold
  canvas,           \* the canvas size: [width, height]
  served,           \* what each file request will deliver if it succeeds
  fetched,          \* per file: "pending", "ok" or "failed"
  layers,           \* the names of the layers stored by the load
  loading,          \* the loading flag
  touches,          \* the fingers on the canvas, in touch-list order
  lastTouch,        \* the one-finger position seen last
  lastPinchDist,    \* the two-finger distance seen last, 0 when none
  zoomAt,           \* Null or the zoom just made: [x, y, num, den]
  panFrom,          \* Null, or for the pan under way (with no zoom since its
                    \* press): [dx, dy] offsets minus pointer at the press, and
                    \* the scale and baseScale at the press
  geometry,         \* Null or the geometry handed to getBoundsAndCenter
  summary,          \* Null or what that call did: the value returned or the error
  renderedView      \* Null when the handlers were rebuilt by a render after the
                    \* last view update; otherwise the viewState of the last
                    \* render, which the closures of handleWheel and
                    \* handleTouchMove still hold

docVars == <<completedBoxes, notes, heap, history, historyIndex, pushed, nPush>>
dataVars == <<variant, limits, bounds, inverterLabels>>
gestureVars == <<selectionBoxRef, isPanning, hasMoved, lastMouse>>
envVars == <<pressed, pointer, clickPending>>
ghostVars == <<lastEvent, stage, toggleLog, lastToggle, dragExceeded>>
loadVars == <<served, fetched, layers, loading>>
touchVars == <<touches, lastTouch, lastPinchDist>>
restVars == <<canvas, loadVars, touchVars>>
geomVars == <<geometry, summary>>
asideVars == <<geomVars, renderedView>>
quietVars == <<dataVars, asideVars, restVars, zoomAt, panFrom>>
appVars == <<dataVars, viewState, activeMode, noteMode, noteEditor, now, docVars,
             gestureVars, envVars, ghostVars, restVars, zoomAt, panFrom>>
vars == <<appVars, asideVars>>

\* ------------------------------------------------------------- note objects
\* The smallest reference not in use.
FreshRef(h) ==
  CHOOSE r \in 1..(Cardinality(DOMAIN h) + 1) :
    r \notin DOMAIN h /\ \A s \in 1..(r - 1) : s \in DOMAIN h

\* notes.map(n => ({ ...n })): a new object per note, in order.
RECURSIVE CopyNotes(_, _)
CopyNotes(h, refs) ==
  IF refs = <<>> THEN [heap |-> h, refs |-> <<>>]
  ELSE LET r == FreshRef(h)
           rest == CopyNotes(h @@ (r :> h[Head(refs)]), Tail(refs))
       IN [heap |-> rest.heap, refs |-> <<r>> \o rest.refs]

\* The contents of a list of note references.
Deref(h, refs) == [i \in 1..Len(refs) |-> h[refs[i]]]

\* The note references of every snapshot, in order.
RECURSIVE FlattenNotes(_)
FlattenNotes(hist) ==
  IF hist = <<>> THEN <<>> ELSE Head(hist).notes \o FlattenNotes(Tail(hist))

\* refs without the repetitions and without the members of seen.
RECURSIVE Distinct(_, _)
Distinct(refs, seen) ==
  IF refs = <<>> THEN <<>>
  ELSE IF Head(refs) \in seen THEN Distinct(Tail(refs), seen)
  ELSE <<Head(refs)>> \o Distinct(Tail(refs), seen \cup {Head(refs)})

\* Garbage collection: the objects no list refers to are dropped and the
\* references are renumbered in order of first use (an address carries no
\* meaning); which lists share which object is preserved.
Collect(d) ==
  LET order == Distinct(d.notes \o FlattenNotes(d.history), {})
      rank(r) == CHOOSE k \in 1..Len(order) : order[k] = r
      renumber(refs) == [i \in 1..Len(refs) |-> rank(refs[i])]
  IN [d EXCEPT !.heap = [k \in 1..Len(order) |-> d.heap[order[k]]],
               !.notes = renumber(d.notes),
               !.history = [i \in 1..Len(d.history) |->
                              [completedBoxes |-> d.history[i].completedBoxes,
                               notes |-> renumber(d.history[i].notes)]]]

\* The document state of the interaction engine, as one record.
Doc ==
  [heap |-> heap, notes |-> notes, completedBoxes |-> completedBoxes,
   history |-> history, historyIndex |-> historyIndex, pushed |-> pushed,
   nPush |-> nPush]

SetDoc(d) ==
  /\ heap' = d.heap
  /\ notes' = d.notes
  /\ completedBoxes' = d.completedBoxes
  /\ history' = d.history
  /\ historyIndex' = d.historyIndex
  /\ pushed' = d.pushed
  /\ nPush' = d.nPush

\* ------------------------------------------------------------------ history
\* sameBoxes: equal length and every new id included in the head's list.
SameBoxes(newBoxes, curBoxes) ==
  /\ Cardinality(newBoxes) = Cardinality(curBoxes)
  /\ \A id \in newBoxes : id \in curBoxes

\* A comparison that never finds the note lists alike.
SameNotesNever(newNotes, curNotes) == FALSE

\* A comparison that always finds the note lists alike.
SameNotesAlways(newNotes, curNotes) == TRUE

\* sameNotes: only the lengths are compared.
SameNotes(newNotes, curNotes) == Len(newNotes) = Len(curNotes)

\* A slice that keeps the redo future.
SliceFutureKeep(hist, idx) == hist

\* history.slice(0, historyIndex + 1)
SliceFuture(hist, idx) == SubSeq(hist, 1, idx + 1)

\* A history without the cap.
CapHistoryOff(hist) == hist

\* if (newHistory.length > 50) newHistory.shift()
CapHistory(hist) == IF Len(hist) > HistoryCap THEN Tail(hist) ELSE hist

\* The effect on [completedBoxes, notes]: it exists in part_000 only.
HistoryEffect(d) ==
  IF variant /= "part_000" THEN d
  ELSE IF /\ d.historyIndex >= 0
          /\ d.historyIndex < Len(d.history)
          /\ SameBoxes(d.completedBoxes, d.history[d.historyIndex + 1].completedBoxes)
          /\ SameNotes(d.notes, d.history[d.historyIndex + 1].notes)
       THEN d
       ELSE LET copied == CopyNotes(d.heap, d.notes)
                newState == [completedBoxes |-> d.completedBoxes, notes |-> copied.refs]
                newHistory == CapHistory(Append(SliceFuture(d.history, d.historyIndex), newState))
                newPushed ==
                  CapHistory(Append(SliceFuture(d.pushed, d.historyIndex),
                                    [completedBoxes |-> d.completedBoxes,
                                     notes |-> Deref(d.heap, d.notes)]))
            IN [d EXCEPT !.heap = copied.heap,
                         !.history = newHistory,
                         !.historyIndex = Len(newHistory) - 1,
                         !.pushed = newPushed,
                         !.nPush = @ + 1]

UndoGuard(idx, hist) == idx > 0
RedoGuard(idx, hist) == idx < Len(hist) - 1

\* An undo that restores the snapshot it is leaving.
UndoDocStale(d) ==
  IF UndoGuard(d.historyIndex, d.history)
  THEN HistoryEffect([d EXCEPT !.historyIndex = d.historyIndex - 1,
                               !.completedBoxes = d.history[d.historyIndex + 1].completedBoxes,
                               !.notes = d.history[d.historyIndex + 1].notes])
  ELSE d

\* A redo that wraps around to the first snapshot at the last index.
RedoDocWrap(d) ==
  IF RedoGuard(d.historyIndex, d.history)
  THEN HistoryEffect([d EXCEPT !.historyIndex = d.historyIndex + 1,
                               !.completedBoxes = d.history[d.historyIndex + 2].completedBoxes,
                               !.notes = d.history[d.historyIndex + 2].notes])
  ELSE IF d.history = <<>> THEN d
  ELSE HistoryEffect([d EXCEPT !.historyIndex = 0,
                               !.completedBoxes = d.history[1].completedBoxes,
                               !.notes = d.history[1].notes])

\* undo: the index moves back and both collections are restored from the snapshot
\* (a new Set, a new array holding the snapshot's own note objects).
UndoDoc(d) ==
  IF UndoGuard(d.historyIndex, d.history)
  THEN HistoryEffect([d EXCEPT !.historyIndex = d.historyIndex - 1,
                               !.completedBoxes = d.history[d.historyIndex].completedBoxes,
                               !.notes = d.history[d.historyIndex].notes])
  ELSE d

RedoDoc(d) ==
  IF RedoGuard(d.historyIndex, d.history)
  THEN HistoryEffect([d EXCEPT !.historyIndex = d.historyIndex + 1,
                               !.completedBoxes = d.history[d.historyIndex + 2].completedBoxes,
                               !.notes = d.history[d.historyIndex + 2].notes])
  ELSE d

\* ------------------------------------------------------------ hit and batch
\* A hit test that keeps the last label in range.
FirstHitLast(labels, b, v, mouseX, mouseY) ==
  LET hits == {i \in 1..Len(labels) :
                 LET s == worldToScreen(b, v, labels[i].position[1], labels[i].position[2])
                 IN WithinRadius(mouseX, mouseY, s.x, s.y, ClickRadius)}
  IN IF hits = {} THEN 0 ELSE SetMax(hits)

\* A hit-test in which the label closest to the pointer wins.
FirstHitNearest(labels, b, v, mouseX, mouseY) ==
  LET Sq(i) ==
        LET s == worldToScreen(b, v, labels[i].position[1], labels[i].position[2])
        IN (mouseX - s.x) * (mouseX - s.x) + (mouseY - s.y) * (mouseY - s.y)
      hits == {i \in 1..Len(labels) :
                 LET s == worldToScreen(b, v, labels[i].position[1], labels[i].position[2])
                 IN WithinRadius(mouseX, mouseY, s.x, s.y, ClickRadius)}
  IN IF hits = {} THEN 0
     ELSE SetMin({i \in hits : \A j \in hits : Sq(i) <= Sq(j)})

\* The first label, in list order, within the click radius of the pointer
\* (0 when there is none).
FirstHit(labels, b, v, mouseX, mouseY) ==
  LET hits == {i \in 1..Len(labels) :
                 LET s == worldToScreen(b, v, labels[i].position[1], labels[i].position[2])
                 IN WithinRadius(mouseX, mouseY, s.x, s.y, ClickRadius)}
  IN IF hits = {} THEN 0 ELSE SetMin(hits)

\* A note hit-test in which the last note in range wins.
FirstNoteHitLast(h, ns, b, v, mouseX, mouseY) ==
  LET hits == {i \in 1..Len(ns) :
                 LET s == worldToScreen(b, v, h[ns[i]].position[1], h[ns[i]].position[2])
                 IN WithinRadius(mouseX, mouseY, s.x, s.y, NoteRadius)}
  IN IF hits = {} THEN 0 ELSE SetMax(hits)

\* The first note, in list order, within the note radius of the pointer.
FirstNoteHit(h, ns, b, v, mouseX, mouseY) ==
  LET hits == {i \in 1..Len(ns) :
                 LET s == worldToScreen(b, v, h[ns[i]].position[1], h[ns[i]].position[2])
                 IN WithinRadius(mouseX, mouseY, s.x, s.y, NoteRadius)}
  IN IF hits = {} THEN 0 ELSE SetMin(hits)

\* dist < minDistance (0.00005 world units) for some note: world coordinates
\* are integers here, so the distance is below it only when it is zero.
\* Math.sqrt(dx * dx + dy * dy) < 0.00005 between two world positions: whole
\* coordinates are that close when they are equal, and a difference that is
\* infinite or NaN is not below the minimum.
Closer(a, b) ==
  /\ \A k \in {1, 2} : IsFinite(JsSub(a[k], b[k]))
  /\ a = b

TooClose(h, ns, worldPos) ==
  \E i \in 1..Len(ns) : Closer(h[ns[i]].position, worldPos)

\* An updater that only ever adds.
ToggleBoxAdd(S, id) == S \cup {id}

\* The updater of the toggle: delete the id if present, add it otherwise.
ToggleBox(S, id) == IF id \in S THEN S \ {id} ELSE S \cup {id}

InRect(x, y, minX, maxX, minY, maxY) ==
  x >= minX /\ x <= maxX /\ y >= minY /\ y <= maxY

\* selectedIds: the boxIds of the labels whose projection is in the rectangle.
SelectedIds(labels, b, v, box) ==
  LET minX == Min2(box.startX, box.endX)
      maxX == Max2(box.startX, box.endX)
      minY == Min2(box.startY, box.endY)
      maxY == Max2(box.startY, box.endY)
  IN {labels[i].boxId : i \in
        {j \in 1..Len(labels) :
           LET s == worldToScreen(b, v, labels[j].position[1], labels[j].position[2])
           IN InRect(s.x, s.y, minX, maxX, minY, maxY)}}

\* A batch that also records the marquee itself, under an id of its own.
ApplyBatchWithBox(S, ids, action) ==
  IF action = "remove" THEN S \ ids ELSE S \cup ids \cup {"marquee"}

\* The updater of the batch.
ApplyBatch(S, ids, action) == IF action = "remove" THEN S \ ids ELSE S \cup ids

\* A marquee that counts as moved beyond the pan threshold already.
BoxMovedEarly(box, x, y) ==
  Abs(x - box.startX) > PanThreshold \/ Abs(y - box.startY) > PanThreshold

\* Whether a move to (x, y) marks the marquee as moved.
BoxMoved(box, x, y) ==
  Abs(x - box.startX) > DragThreshold \/ Abs(y - box.startY) > DragThreshold

\* ------------------------------------------------------------------- notes
\* An edit that writes the text into the matching note objects themselves.
EditNotesInPlace(h, refs, noteId, text) ==
  [heap |-> [r \in DOMAIN h |->
               IF (\E i \in 1..Len(refs) : refs[i] = r) /\ h[r].id = noteId
               THEN [h[r] EXCEPT !.text = text] ELSE h[r]],
   refs |-> refs]

\* prev.map(n => n.id === noteId ? { ...n, text } : n): a matching note is
\* replaced by a new object, every other note is kept.
RECURSIVE EditNotes(_, _, _, _)
EditNotes(h, refs, noteId, text) ==
  IF refs = <<>> THEN [heap |-> h, refs |-> <<>>]
  ELSE IF h[Head(refs)].id = noteId
       THEN LET r == FreshRef(h)
                rest == EditNotes(h @@ (r :> [h[Head(refs)] EXCEPT !.text = text]),
                                  Tail(refs), noteId, text)
            IN [heap |-> rest.heap, refs |-> <<r>> \o rest.refs]
       ELSE LET rest == EditNotes(h, Tail(refs), noteId, text)
            IN [heap |-> rest.heap, refs |-> <<Head(refs)>> \o rest.refs]

\* A deletion that drops the first note whenever the editor's note exists.
DeleteNotesHead(h, refs, noteId) ==
  IF \E i \in 1..Len(refs) : h[refs[i]].id = noteId THEN Tail(refs) ELSE refs

\* prev.filter(n => n.id !== noteId)
DeleteNotes(h, refs, noteId) == SelectSeq(refs, LAMBDA r : h[r].id /= noteId)

\* ---------------------------------------------------------- handleMouseUp
\* A release that applies the batch one box at a time, the history effect
\* running after each.
ReleaseDocPerBox(d) ==
  LET RECURSIVE PerBox(_, _)
      PerBox(dd, ids) ==
        IF ids = {} THEN dd
        ELSE LET id == CHOOSE x \in ids : TRUE
             IN PerBox(HistoryEffect([dd EXCEPT !.completedBoxes =
                                        ApplyBatch(@, {id}, selectionBoxRef.action)]),
                       ids \ {id})
  IN IF selectionBoxRef /= Null /\ hasMoved
     THEN PerBox(d, SelectedIds(inverterLabels, bounds, viewState, selectionBoxRef))
     ELSE d

\* What a release (or a leave) does to the document: a marquee that moved
\* applies its batch when it selected something; the history effect follows.
ReleaseDoc(d) ==
  IF selectionBoxRef /= Null /\ hasMoved
  THEN LET ids == SelectedIds(inverterLabels, bounds, viewState, selectionBoxRef)
       IN IF ids /= {}
          THEN HistoryEffect([d EXCEPT !.completedBoxes =
                                ApplyBatch(d.completedBoxes, ids, selectionBoxRef.action)])
          ELSE d
  ELSE d

BatchApplied ==
  /\ selectionBoxRef /= Null
  /\ hasMoved
  /\ SelectedIds(inverterLabels, bounds, viewState, selectionBoxRef) /= {}

\* ------------------------------------------------------- handleCanvasClick
\* The outcome of a click at pointer p: the document, the editor, the clock,
\* and which branch was taken.
ClickOutcome(d, p) ==
  LET mouseX == p[1]
      mouseY == p[2]
      same == [doc |-> d, noteEditor |-> noteEditor, now |-> now]
  IN IF hasMoved THEN same @@ [kind |-> "suppressed"]
     ELSE IF noteMode
     THEN LET hit == FirstNoteHit(d.heap, d.notes, bounds, viewState, mouseX, mouseY)
              worldPos == screenToWorld(bounds, viewState, mouseX, mouseY)
          IN IF hit /= 0
             THEN [doc |-> d,
                   noteEditor |-> [noteId |-> d.heap[d.notes[hit]].id],
                   now |-> now, kind |-> "editor"]
             ELSE IF TooClose(d.heap, d.notes, worldPos)
             THEN same @@ [kind |-> "tooclose"]
             ELSE LET r == FreshRef(d.heap)
                      newNote == [id |-> now, position |-> worldPos, text |-> "", selected |-> FALSE]
                  IN [doc |-> HistoryEffect([d EXCEPT !.heap = d.heap @@ (r :> newNote),
                                                      !.notes = Append(d.notes, r)]),
                      noteEditor |-> noteEditor, now |-> now + 1, kind |-> "note"]
     ELSE IF activeMode = "test"
     THEN LET hit == FirstHit(inverterLabels, bounds, viewState, mouseX, mouseY)
          IN IF hit /= 0
             THEN [doc |-> HistoryEffect([d EXCEPT !.completedBoxes =
                               ToggleBox(d.completedBoxes, inverterLabels[hit].boxId)]),
                   noteEditor |-> noteEditor, now |-> now, kind |-> "toggle"]
             ELSE same @@ [kind |-> "miss"]
     ELSE same @@ [kind |-> "termination"]

\* --------------------------------------------------------------------- Init
\* The bounds in force in a specification.
Limits(nP, nN) ==
  [push |-> nP, notes |-> nN, pan |-> MaxPan, scale |-> MaxScale, minScale |-> 0,
   device |-> "any"]
ViewLimits ==
  [push |-> 0, notes |-> 0, pan |-> ViewPan, scale |-> MaxScale, minScale |-> 0,
   device |-> "any"]
OwnerLimits ==
  [push |-> OwnerPush, notes |-> OwnerNotes, pan |-> OwnerPan, scale |-> OwnerScale,
   minScale |-> OwnerMinScale, device |-> "any"]

NoPoint == <<-1, -1>>

\* The state after construction and mount of everything but the load.
InitRest(v, bound) ==
  /\ variant = v
  /\ limits = bound
  /\ geometry = Null
  /\ summary = Null
  /\ renderedView = Null
  /\ touches = <<>>
  /\ lastTouch = <<0, 0>>
  /\ lastPinchDist = 0
  /\ zoomAt = Null
  /\ panFrom = Null
  /\ activeMode = "test"
  /\ noteMode = FALSE
  /\ noteEditor = Null
  /\ now = 1
  /\ LET d == HistoryEffect([heap |-> <<>>, notes |-> <<>>, completedBoxes |-> {},
                             history |-> <<>>, historyIndex |-> -1, pushed |-> <<>>,
                             nPush |-> 0])
     IN /\ heap = d.heap
        /\ notes = d.notes
        /\ completedBoxes = d.completedBoxes
        /\ history = d.history
        /\ historyIndex = d.historyIndex
        /\ pushed = d.pushed
        /\ nPush = 0
  /\ selectionBoxRef = Null
  /\ isPanning = FALSE
  /\ hasMoved = FALSE
  /\ lastMouse = <<0, 0>>
  /\ pressed = {}
  /\ pointer = NoPoint
  /\ clickPending = FALSE
  /\ lastEvent = "other"
  /\ stage = IF v = "part_000" THEN "toggles" ELSE "off"
  /\ toggleLog = IF v = "part_000" THEN <<{}>> ELSE <<>>
  /\ lastToggle = Null
  /\ dragExceeded = FALSE

\* The view before any fit (the initial value of the viewState state).
InitialView == [offsetX |-> 0, offsetY |-> 0, scale |-> 1, baseScale |-> 1]

\* The state after construction and mount (handleResize has sized the canvas
\* to the window, the history effect has run once on the empty collections)
\* and the load of every file of `files`.
InitWith(v, files, bound) ==
  /\ canvas = Canvas
  /\ served = files
  /\ fetched = [f \in FileSet |-> "ok"]
  /\ layers = DataOf(files, FileSet).layers
  /\ loading = FALSE
  /\ inverterLabels = DataOf(files, FileSet).labels
  /\ bounds = ComputeBounds(AllCoords(DataOf(files, FileSet)))
  /\ viewState = FitView(ComputeBounds(AllCoords(DataOf(files, FileSet))), Canvas)
  /\ InitRest(v, bound)

Init ==
  \E v \in {"part_000", "App"} : InitWith(v, FilesTwo, Limits(MaxPush, MaxNotes))

\* The bound on pushed snapshots.
WithinBounds(d) == d.nPush <= limits.push

\* ------------------------------------------------------------------ actions
\* A handleMouseDown whose left and right buttons start a marquee in note mode
\* too.
ButtonRoleAnyMode(b, nm) ==
  IF b = 1 THEN "pan" ELSE IF b = 2 THEN "remove" ELSE IF b = 0 THEN "add" ELSE "none"

\* What handleMouseDown starts for button b: the middle button pans; outside
\* note mode the right button starts a remove marquee and the left button an
\* add marquee.
ButtonRole(b, nm) ==
  IF b = 1 THEN "pan"
  ELSE IF b = 2 /\ ~nm THEN "remove"
  ELSE IF b = 0 /\ ~nm THEN "add"
  ELSE "none"

\* handleMouseDown, button b at p. A button already held keeps the pointer
\* where it is.
MouseDown(b, p) ==
  /\ ~clickPending
  /\ b \notin pressed
  /\ pressed = {} \/ p = pointer
  /\ hasMoved' = FALSE
  /\ IF ButtonRole(b, noteMode) = "pan"
     THEN /\ isPanning' = TRUE
          /\ lastMouse' = p
          /\ UNCHANGED selectionBoxRef
     ELSE IF ButtonRole(b, noteMode) \in {"add", "remove"}
     THEN /\ selectionBoxRef' = [startX |-> p[1], startY |-> p[2], endX |-> p[1],
                                 endY |-> p[2], action |-> ButtonRole(b, noteMode)]
          /\ UNCHANGED <<isPanning, lastMouse>>
     ELSE UNCHANGED <<selectionBoxRef, isPanning, lastMouse>>
  /\ pressed' = pressed \cup {b}
  /\ pointer' = p
  /\ UNCHANGED clickPending
  /\ lastEvent' = "other"
  /\ dragExceeded' = IF selectionBoxRef = Null \/ (b /= 1 /\ ~noteMode) THEN FALSE
                     ELSE dragExceeded
  /\ lastToggle' = IF b = 0 THEN lastToggle ELSE Null
  /\ zoomAt' = Null
  /\ panFrom' = IF b = 1
                THEN [dx |-> viewState.offsetX - p[1], dy |-> viewState.offsetY - p[2],
                      scale |-> viewState.scale, baseScale |-> viewState.baseScale]
                ELSE panFrom
  /\ UNCHANGED <<dataVars, asideVars, restVars, viewState, activeMode, noteMode, noteEditor, now, docVars,
                 stage, toggleLog>>

\* handleMouseMove to p while a button is held: the marquee follows the
\* pointer, or the view pans. (A move with no button held only looks for the
\* hover text, which is not part of this state.)
MouseMove(p) ==
  /\ ~clickPending
  /\ pressed /= {}
  /\ p /= pointer
  /\ pointer' = p
  /\ lastEvent' = "other"
  /\ IF selectionBoxRef /= Null
     THEN /\ selectionBoxRef' = [selectionBoxRef EXCEPT !.endX = p[1], !.endY = p[2]]
          /\ hasMoved' = (hasMoved \/ BoxMoved(selectionBoxRef, p[1], p[2]))
          /\ dragExceeded' = (dragExceeded \/
                              Abs(p[1] - selectionBoxRef.startX) > DragThreshold \/
                              Abs(p[2] - selectionBoxRef.startY) > DragThreshold)
          /\ UNCHANGED <<isPanning, lastMouse, viewState, lastToggle>>
     ELSE IF isPanning
     THEN LET dx == p[1] - lastMouse[1]
              dy == p[2] - lastMouse[2]
          IN /\ hasMoved' = (hasMoved \/ Abs(dx) > PanThreshold \/ Abs(dy) > PanThreshold)
             /\ lastMouse' = p
             /\ viewState' = PanView(viewState, dx, dy)
             /\ Abs(viewState'.offsetX - canvas.width \div 2) <= limits.pan
             /\ Abs(viewState'.offsetY - canvas.height \div 2) <= limits.pan
             /\ lastToggle' = Null
             /\ UNCHANGED <<selectionBoxRef, isPanning, dragExceeded>>
     ELSE UNCHANGED <<gestureVars, viewState, lastToggle, dragExceeded>>
  /\ zoomAt' = Null
  /\ UNCHANGED <<dataVars, asideVars, restVars, panFrom, activeMode, noteMode, noteEditor, now, docVars,
                 pressed, clickPending, stage, toggleLog>>

\* What handleMouseUp does, for a release and for a leave alike. lastMouse is
\* read only while panning (the middle press sets it first), so the model
\* forgets it when the panning ends.
EndGesture ==
  /\ LET d == Collect(ReleaseDoc(Doc))
     IN WithinBounds(d) /\ SetDoc(d)
  /\ selectionBoxRef' = Null
  /\ isPanning' = FALSE
  /\ IF BatchApplied
     THEN stage' = "off" /\ toggleLog' = <<>>
     ELSE UNCHANGED <<stage, toggleLog>>
  /\ lastMouse' = <<0, 0>>
  /\ zoomAt' = Null
  /\ panFrom' = Null
  /\ UNCHANGED <<dataVars, asideVars, restVars, viewState, activeMode, noteMode, noteEditor, now, hasMoved>>

\* onMouseUp: button b is released over the canvas; the release of the left
\* button is followed by the click.
MouseUp(b) ==
  /\ ~clickPending
  /\ b \in pressed
  /\ EndGesture
  /\ pressed' = pressed \ {b}
  /\ clickPending' = (b = 0)
  /\ lastToggle' = IF b = 0 /\ ~BatchApplied THEN lastToggle ELSE Null
  /\ pointer' = IF pressed \ {b} = {} /\ b /= 0 THEN NoPoint ELSE pointer
  /\ dragExceeded' = IF pressed \ {b} = {} /\ b /= 0 THEN FALSE ELSE dragExceeded
  /\ lastEvent' = "release"

\* onMouseLeave: the pointer leaves the canvas during a gesture; the buttons
\* are released outside (release) or still held when it comes back.
MouseLeave(release) ==
  /\ ~clickPending
  /\ pressed /= {}
  /\ EndGesture
  /\ pressed' = IF release THEN {} ELSE pressed
  /\ pointer' = IF release THEN NoPoint ELSE pointer
  /\ UNCHANGED clickPending
  /\ lastToggle' = Null
  /\ dragExceeded' = IF release THEN FALSE ELSE dragExceeded
  /\ lastEvent' = "release"

\* onClick: handleCanvasClick at the pointer. A new note takes the reading of
\* Date.now() as its id; ticked says whether the clock has moved on by the
\* next click.
ClickEvent(ticked) ==
  /\ clickPending
  /\ LET out == ClickOutcome(Doc, pointer)
         d == Collect(out.doc)
     IN /\ WithinBounds(d)
        /\ out.now - 1 <= limits.notes
        /\ SetDoc(d)
        /\ noteEditor' = out.noteEditor
        /\ now' = IF ticked THEN out.now ELSE now
        /\ IF out.kind = "toggle"
           THEN /\ lastToggle' = [pt |-> pointer, view |-> viewState, before |-> completedBoxes,
                                 again |-> (lastToggle /= Null /\ lastToggle.pt = pointer)]
                /\ IF stage = "toggles"
                   THEN stage' = "toggles" /\ toggleLog' = Append(toggleLog, d.completedBoxes)
                   ELSE stage' = "off" /\ toggleLog' = <<>>
           ELSE /\ lastToggle' = Null
                /\ IF out.kind = "note"
                   THEN stage' = "off" /\ toggleLog' = <<>>
                   ELSE UNCHANGED <<stage, toggleLog>>
  /\ clickPending' = FALSE
  /\ pointer' = IF pressed = {} THEN NoPoint ELSE pointer
  /\ dragExceeded' = FALSE
  /\ lastEvent' = "click"
  /\ UNCHANGED <<quietVars, viewState, activeMode, noteMode, gestureVars, pressed>>

\* A click at least a millisecond before the next one.
Click == ClickEvent(TRUE)

\* An undo that also re-fits the view.
UndoRefits ==
  /\ ~clickPending
  /\ LET d == Collect(UndoDoc(Doc))
     IN WithinBounds(d) /\ SetDoc(d)
  /\ stage' = "off" /\ toggleLog' = <<>>
  /\ lastToggle' = Null
  /\ lastEvent' = IF historyIndex > 0 THEN "undo" ELSE "undoAtStart"
  /\ viewState' = IF historyIndex > 0 THEN FitView(bounds, canvas) ELSE viewState
  /\ UNCHANGED <<quietVars, activeMode, noteMode, noteEditor, now,
                 gestureVars, envVars, dragExceeded>>

\* Ctrl+Z
Undo ==
  /\ ~clickPending
  /\ LET d == Collect(UndoDoc(Doc))
     IN WithinBounds(d) /\ SetDoc(d)
  /\ IF stage = "toggles" /\ Len(toggleLog) >= 2
     THEN stage' = "undone" /\ UNCHANGED toggleLog
     ELSE stage' = "off" /\ toggleLog' = <<>>
  /\ lastToggle' = Null
  /\ lastEvent' = IF historyIndex > 0 THEN "undo" ELSE "undoAtStart"
  /\ UNCHANGED <<quietVars, viewState, activeMode, noteMode, noteEditor, now,
                 gestureVars, envVars, dragExceeded>>

\* Ctrl+Y, Ctrl+Shift+Z
Redo ==
  /\ ~clickPending
  /\ LET d == Collect(RedoDoc(Doc))
     IN WithinBounds(d) /\ SetDoc(d)
  /\ IF stage = "undone"
     THEN stage' = "redone" /\ UNCHANGED toggleLog
     ELSE stage' = "off" /\ toggleLog' = <<>>
  /\ lastToggle' = Null
  /\ lastEvent' = IF historyIndex < Len(history) - 1 THEN "redo" ELSE "redoAtEnd"
  /\ UNCHANGED <<quietVars, viewState, activeMode, noteMode, noteEditor, now,
                 gestureVars, envVars, dragExceeded>>

\* The note-mode button.
ToggleNoteMode ==
  /\ ~clickPending
  /\ noteMode' = ~noteMode
  /\ lastEvent' = "other"
  /\ lastToggle' = Null
  /\ UNCHANGED <<quietVars, viewState, activeMode, noteEditor, now, docVars,
                 gestureVars, envVars, stage, toggleLog, dragExceeded>>

\* The mode switch of part_000 (pressing the button of the mode already
\* active changes nothing).
SetActiveMode(m) ==
  /\ ~clickPending
  /\ variant = "part_000"
  /\ m /= activeMode
  /\ activeMode' = m
  /\ lastEvent' = "other"
  /\ lastToggle' = Null
  /\ UNCHANGED <<quietVars, viewState, noteMode, noteEditor, now, docVars,
                 gestureVars, envVars, stage, toggleLog, dragExceeded>>

\* The editor's textarea onChange.
NoteEditorChange(text) ==
  /\ ~clickPending
  /\ noteEditor /= Null
  /\ LET e == EditNotes(heap, notes, noteEditor.noteId, text)
         d == Collect(HistoryEffect([Doc EXCEPT !.heap = e.heap, !.notes = e.refs]))
     IN WithinBounds(d) /\ SetDoc(d)
  /\ stage' = "off"
  /\ toggleLog' = <<>>
  /\ lastToggle' = Null
  /\ lastEvent' = "other"
  /\ UNCHANGED <<quietVars, viewState, activeMode, noteMode, noteEditor, now,
                 gestureVars, envVars, dragExceeded>>

\* The editor's Delete button.
NoteEditorDelete ==
  /\ ~clickPending
  /\ noteEditor /= Null
  /\ LET d == Collect(HistoryEffect([Doc EXCEPT !.notes =
                                       DeleteNotes(heap, notes, noteEditor.noteId)]))
     IN WithinBounds(d) /\ SetDoc(d)
  /\ noteEditor' = Null
  /\ stage' = "off"
  /\ toggleLog' = <<>>
  /\ lastToggle' = Null
  /\ lastEvent' = "other"
  /\ UNCHANGED <<quietVars, viewState, activeMode, noteMode, now,
                 gestureVars, envVars, dragExceeded>>

\* The editor's Save and Cancel buttons.
NoteEditorClose ==
  /\ ~clickPending
  /\ noteEditor /= Null
  /\ noteEditor' = Null
  /\ lastEvent' = "other"
  /\ lastToggle' = Null
  /\ UNCHANGED <<quietVars, viewState, activeMode, noteMode, now, docVars,
                 gestureVars, envVars, stage, toggleLog, dragExceeded>>

\* The viewState in the closures of handleWheel and handleTouchMove (both are
\* useCallback over [viewState]): the view of the last render.
ClosureView == IF renderedView = Null THEN viewState ELSE renderedView

\* The updater of a zoom, prev => ({...prev, scale, offsetX, offsetY}): the
\* three fields were computed from the closure's view before the call, and
\* every other field is taken from prev.
ZoomUpdater(prev, seen, x, y, num, den) ==
  LET zoomed == ZoomView(seen, x, y, num, den)
  IN [prev EXCEPT !.scale = zoomed.scale,
                  !.offsetX = zoomed.offsetX,
                  !.offsetY = zoomed.offsetY]

\* handleWheel at p: deltaY > 0 zooms out by 0.9, otherwise in by 1.1. The new
\* scale and offsets are computed from the closure's view; rendered says
\* whether the component re-renders before the next event.
WheelEvent(dir, p, rendered) ==
  /\ ~clickPending
  /\ LET f == IF dir = "out" THEN ZoomOut ELSE ZoomIn
     IN /\ ZoomExact(ClosureView, p[1], p[2], f.num, f.den)
        /\ viewState' = ZoomUpdater(viewState, ClosureView, p[1], p[2], f.num, f.den)
        /\ zoomAt' = [x |-> p[1], y |-> p[2], num |-> f.num, den |-> f.den]
  /\ WithinView(viewState', canvas, limits)
  /\ renderedView' = IF rendered THEN Null ELSE ClosureView
  /\ lastEvent' = "zoom"
  /\ lastToggle' = Null
  /\ panFrom' = Null
  /\ UNCHANGED <<dataVars, geomVars, restVars, activeMode, noteMode, noteEditor, now, docVars,
                 gestureVars, envVars, stage, toggleLog, dragExceeded>>

\* A wheel event followed by the re-render.
Wheel(dir, p) == WheelEvent(dir, p, TRUE)

\* handleTouchStart: one more finger at p.
TouchStart(p) ==
  /\ Len(touches) < 2
  /\ touches' = Append(touches, p)
  /\ IF Len(touches') = 1
     THEN lastTouch' = p /\ UNCHANGED lastPinchDist
     ELSE lastPinchDist' = Dist(touches'[1], touches'[2]) /\ UNCHANGED lastTouch
  /\ lastEvent' = "touch"
  /\ lastToggle' = Null
  /\ zoomAt' = Null
  /\ UNCHANGED <<dataVars, asideVars, canvas, loadVars, viewState, activeMode, noteMode, noteEditor, now,
                 docVars, gestureVars, envVars, stage, toggleLog, dragExceeded, panFrom>>

\* handleTouchMove: finger i moves to p. One finger pans, two fingers zoom
\* about their midpoint by the ratio of their distance to the distance seen
\* last.
TouchMoveEvent(i, p, rendered) ==
  /\ i \in 1..Len(touches)
  /\ p /= touches[i]
  /\ touches' = [touches EXCEPT ![i] = p]
  /\ IF Len(touches) = 1
     THEN /\ viewState' = PanView(viewState, p[1] - lastTouch[1], p[2] - lastTouch[2])
          /\ lastTouch' = p
          /\ lastEvent' = "touch"
          /\ zoomAt' = Null
          /\ UNCHANGED lastPinchDist
     ELSE LET dist == Dist(touches'[1], touches'[2])
              centerX == (touches'[1][1] + touches'[2][1]) \div 2
              centerY == (touches'[1][2] + touches'[2][2]) \div 2
          IN /\ IF lastPinchDist > 0
                THEN /\ ZoomExact(ClosureView, centerX, centerY, dist, lastPinchDist)
                     /\ viewState' = ZoomUpdater(viewState, ClosureView, centerX, centerY,
                                                 dist, lastPinchDist)
                     /\ zoomAt' = [x |-> centerX, y |-> centerY, num |-> dist,
                                   den |-> lastPinchDist]
                     /\ lastEvent' = "zoom"
                ELSE /\ UNCHANGED viewState
                     /\ zoomAt' = Null
                     /\ lastEvent' = "touch"
             /\ lastPinchDist' = dist
             /\ UNCHANGED lastTouch
  /\ WithinView(viewState', canvas, limits)
  /\ renderedView' = IF rendered THEN Null ELSE ClosureView
  /\ lastToggle' = Null
  /\ panFrom' = Null
  /\ UNCHANGED <<dataVars, geomVars, canvas, loadVars, activeMode, noteMode, noteEditor, now, docVars,
                 gestureVars, envVars, stage, toggleLog, dragExceeded>>

\* A touch move followed by the re-render.
TouchMove(i, p) == TouchMoveEvent(i, p, TRUE)

\* The re-render after view updates: the handlers are rebuilt over the current
\* viewState.
Render ==
  /\ renderedView /= Null
  /\ renderedView' = Null
  /\ UNCHANGED <<appVars, geomVars>>

\* onTouchEnd: finger i is lifted.
\* A touch end that keeps the pinch reference.
TouchEndKeepsRef(i) ==
  /\ i \in 1..Len(touches)
  /\ touches' = [k \in 1..(Len(touches) - 1) |-> IF k < i THEN touches[k] ELSE touches[k + 1]]
  /\ lastEvent' = "touch"
  /\ lastToggle' = Null
  /\ zoomAt' = Null
  /\ UNCHANGED <<dataVars, asideVars, canvas, loadVars, viewState, activeMode, noteMode, noteEditor, now,
                 docVars, gestureVars, envVars, stage, toggleLog, dragExceeded, lastTouch,
                 lastPinchDist, panFrom>>

TouchEnd(i) ==
  /\ i \in 1..Len(touches)
  /\ touches' = [k \in 1..(Len(touches) - 1) |-> IF k < i THEN touches[k] ELSE touches[k + 1]]
  /\ lastPinchDist' = 0
  /\ lastEvent' = "touch"
  /\ lastToggle' = Null
  /\ zoomAt' = Null
  /\ UNCHANGED <<dataVars, asideVars, canvas, loadVars, viewState, activeMode, noteMode, noteEditor, now,
                 docVars, gestureVars, envVars, stage, toggleLog, dragExceeded, lastTouch,
                 panFrom>>

\* handleResize: the window now has the size `size`; the canvas takes it and
\* the scene is drawn again.
Resize(size) ==
  /\ size /= canvas
  /\ canvas' = size
  /\ lastEvent' = "resize"
  /\ lastToggle' = Null
  /\ zoomAt' = Null
  /\ UNCHANGED <<dataVars, asideVars, loadVars, touchVars, viewState, activeMode, noteMode, noteEditor,
                 now, docVars, gestureVars, envVars, stage, toggleLog, dragExceeded, panFrom>>

\* The request for file f settles: the JSON arrives, or the fetch or the
\* parse fails and the catch turns it into { name, data: null }.
FetchSettle(f, ok) ==
  /\ fetched[f] = "pending"
  /\ fetched' = [fetched EXCEPT ![f] = IF ok THEN "ok" ELSE "failed"]
  /\ lastEvent' = "other"
  /\ UNCHANGED <<asideVars, variant, limits, bounds, inverterLabels, canvas, served, layers, loading,
                 touchVars, viewState, activeMode, noteMode, noteEditor, now, docVars,
                 gestureVars, envVars, stage, toggleLog, lastToggle, dragExceeded,
                 zoomAt, panFrom>>

\* The then-callback of Promise.all, once every request has settled, with the
\* render it causes: the layers, the labels, the bounds when there is any
\* coordinate, the loading flag, and the fit effect of the new bounds.
LoadDone ==
  /\ loading
  /\ \A f \in FileSet : fetched[f] /= "pending"
  /\ LET ok == {f \in FileSet : fetched[f] = "ok"}
         data == DataOf(served, ok)
         b == ComputeBounds(AllCoords(data))
     IN /\ layers' = data.layers
        /\ inverterLabels' = data.labels
        /\ bounds' = b
        /\ viewState' = IF b = Null THEN viewState ELSE FitView(b, canvas)
  /\ loading' = FALSE
  /\ lastEvent' = "load"
  /\ lastToggle' = Null
  /\ zoomAt' = Null
  /\ panFrom' = Null
  /\ UNCHANGED <<asideVars, variant, limits, canvas, served, fetched, touchVars, activeMode, noteMode,
                 noteEditor, now, docVars, gestureVars, envVars, stage, toggleLog,
                 dragExceeded>>

\* A feature's geometry is about to be summarised (the load of src/src/App.jsx
\* does so for every feature of the box layer).
PickGeometry(g) ==
  /\ geometry' = g
  /\ summary' = Null
  /\ UNCHANGED <<appVars, renderedView>>

\* The call getBoundsAndCenter(geometry).
CallGetBoundsAndCenter ==
  /\ geometry /= Null
  /\ summary = Null
  /\ summary' = getBoundsAndCenter(geometry)
  /\ UNCHANGED <<appVars, geometry, renderedView>>

\* No button is held and no click is owed.
Idle == pressed = {} /\ ~clickPending

\* Every event of the interaction engine. The pointer events arrive in any
\* order the buttons allow; the keyboard and the panel buttons are used between
\* gestures. SpecDoc, SpecGesture and SpecCap below explore parts of it in depth.
Next ==
  \/ \E b \in Buttons, p \in Points : MouseDown(b, p)
  \/ \E p \in Points : MouseMove(p)
  \/ \E b \in Buttons : MouseUp(b)
  \/ \E r \in BOOLEAN : MouseLeave(r)
  \/ Click
  \/ Idle /\ Undo
  \/ Idle /\ Redo
  \/ Idle /\ ToggleNoteMode
  \/ \E m \in Modes : Idle /\ SetActiveMode(m)
  \/ \E t \in Texts : Idle /\ NoteEditorChange(t)
  \/ Idle /\ NoteEditorDelete
  \/ Idle /\ NoteEditorClose
  \/ \E d \in WheelDirs, p \in ViewPoints : Wheel(d, p)
  \/ \E p \in ViewPoints : TouchStart(p)
  \/ \E i \in {1, 2}, p \in ViewPoints : TouchMove(i, p)
  \/ \E i \in {1, 2} : TouchEnd(i)
  \/ \E size \in Sizes : Resize(size)
  \/ \E f \in FileSet, ok \in BOOLEAN : FetchSettle(f, ok)
  \/ LoadDone
  \/ \E g \in Geometries : PickGeometry(g)
  \/ CallGetBoundsAndCenter

Spec == Init /\ [][Next]_vars

\* The document and its history under clicks and single-button marquees,
\* undo and redo, the modes and the note editor, at the fitted view.
InitDoc ==
  \E v \in {"part_000", "App"} : InitWith(v, FilesTwo, Limits(DocPush, DocNotes))

NextDoc ==
  \/ \E p \in DocPoints : MouseDown(0, p)
  \/ \E p \in DocPoints : MouseMove(p)
  \/ MouseUp(0)
  \/ Click
  \/ Idle /\ Undo
  \/ Idle /\ Redo
  \/ Idle /\ ToggleNoteMode
  \/ \E m \in Modes : Idle /\ SetActiveMode(m)
  \/ \E t \in Texts : Idle /\ NoteEditorChange(t)
  \/ Idle /\ NoteEditorDelete
  \/ Idle /\ NoteEditorClose

SpecDoc == InitDoc /\ [][NextDoc]_vars

\* The pointer protocol in full: every button, chorded presses, pans, leaves,
\* and the click that follows a left release, in either note mode.
InitGesture ==
  \E v \in {"part_000", "App"} : InitWith(v, FilesTwo, Limits(GesturePush, GestureNotes))

NextGesture ==
  \/ \E b \in Buttons, p \in Points : MouseDown(b, p)
  \/ \E p \in Points : MouseMove(p)
  \/ \E b \in Buttons : MouseUp(b)
  \/ \E r \in BOOLEAN : MouseLeave(r)
  \/ Click
  \/ Idle /\ ToggleNoteMode

SpecGesture == InitGesture /\ [][NextGesture]_vars

\* The history at its cap: one box toggled over and over, with undo and redo.
InitCap ==
  InitWith("part_000", FilesOne, Limits(CapPush, 0))

NextCap ==
  \/ \E p \in CapPoints : MouseDown(0, p)
  \/ MouseUp(0)
  \/ Click
  \/ Idle /\ Undo
  \/ Idle /\ Redo

SpecCap == InitCap /\ [][NextCap]_vars

\* The view under wheel zooms, one-finger pans, two-finger zooms and resizes,
\* on a site fitted at 10 pixels per world unit.
InitView ==
  InitWith("part_000", FilesView, ViewLimits)

NextView ==
  \/ \E d \in WheelDirs, p \in ViewPoints : Wheel(d, p)
  \/ \E p \in ViewPoints : TouchStart(p)
  \/ \E i \in {1, 2}, p \in ViewPoints : TouchMove(i, p)
  \/ \E i \in {1, 2} : TouchEnd(i)
  \/ \E size \in ViewSizes : Resize(size)

SpecView == InitView /\ [][NextView]_vars

\* The same view when wheel and touch-move events may arrive faster than the
\* component re-renders (React batches the updates of continuous events).
InitRender ==
  InitWith("part_000", FilesView, RenderLimits)

NextRender ==
  \/ \E d \in WheelDirs, p \in ViewPoints, r \in BOOLEAN : WheelEvent(d, p, r)
  \/ \E p \in ViewPoints : TouchStart(p)
  \/ \E i \in {1, 2}, p \in ViewPoints, r \in BOOLEAN : TouchMoveEvent(i, p, r)
  \/ \E i \in {1, 2} : TouchEnd(i)
  \/ Render

SpecRender == InitRender /\ [][NextRender]_vars

\* The load from the mount on: the four requests settle in any order, each
\* with either outcome, while the window may be resized.
InitLoad ==
  \E files \in {FilesTwo, FilesTen}, size \in Sizes :
    /\ canvas = size
    /\ served = files
    /\ fetched = [f \in FileSet |-> "pending"]
    /\ layers = {}
    /\ loading = TRUE
    /\ inverterLabels = <<>>
    /\ bounds = Null
    /\ viewState = InitialView
    /\ InitRest("part_000", ViewLimits)

NextLoad ==
  \/ \E f \in FileSet, ok \in BOOLEAN : FetchSettle(f, ok)
  \/ LoadDone
  \/ \E size \in Sizes : Resize(size)

SpecLoad == InitLoad /\ [][NextLoad]_vars

\* Every request settles in the end and the callback of a settled Promise.all
\* runs.
SpecLoadFair ==
  /\ SpecLoad
  /\ \A f \in FileSet : WF_vars(\E ok \in BOOLEAN : FetchSettle(f, ok))
  /\ WF_vars(LoadDone)

\* getBoundsAndCenter on every geometry of Geometries.
\* Both families of handlers on the fitted site, in a desktop session (mouse
\* with a middle button, wheel, keyboard) or a touch-screen session (fingers;
\* a tap arrives as a left press, release and click without a pointer move).
InitOwner ==
  \E device \in {"desktop", "touch"} :
    InitWith("part_000", FilesView,
             IF device = "desktop" THEN [OwnerLimits EXCEPT !.device = device]
             ELSE [OwnerLimits EXCEPT !.device = device, !.push = TouchPush,
                                      !.notes = TouchNotes])

NextDesktop ==
  \/ \E b \in {0, 1}, p \in OwnerPoints : MouseDown(b, p)
  \/ \E p \in OwnerPoints : MouseMove(p)
  \/ \E b \in {0, 1} : MouseUp(b)
  \/ \E d \in WheelDirs : Wheel(d, <<150, 150>>)

NextTouch ==
  \/ \E p \in OwnerPoints : MouseDown(0, p)
  \/ MouseUp(0)
  \/ \E p \in OwnerTouchStarts : TouchStart(p)
  \/ \E i \in {1, 2}, p \in OwnerPoints : TouchMove(i, p)
  \/ \E i \in {1, 2} : TouchEnd(i)

NextOwner ==
  \/ limits.device = "desktop" /\ NextDesktop
  \/ limits.device = "touch" /\ NextTouch
  \/ Click
  \/ Idle /\ Undo
  \/ Idle /\ Redo
  \/ Idle /\ ToggleNoteMode
  \/ \E t \in Texts : Idle /\ NoteEditorChange(t)
  \/ Idle /\ NoteEditorDelete

SpecOwner == InitOwner /\ [][NextOwner]_vars

\* The note handlers on the fitted site: clicks in and out of note mode, the
\* editor, undo and redo.
InitNote == InitWith("part_000", FilesView, Limits(NotePush, NoteNotes))

NextNote ==
  \/ \E p \in NotePoints : MouseDown(0, p)
  \/ MouseUp(0)
  \/ Click
  \/ Idle /\ ToggleNoteMode
  \/ Idle /\ Undo
  \/ Idle /\ Redo
  \/ \E t \in Texts : Idle /\ NoteEditorChange(t)
  \/ Idle /\ NoteEditorDelete
  \/ Idle /\ NoteEditorClose

SpecNote == InitNote /\ [][NextNote]_vars

\* The same session when two clicks may fall within one millisecond of
\* Date.now().
NextClock ==
  \/ \E p \in NotePoints : MouseDown(0, p)
  \/ MouseUp(0)
  \/ \E ticked \in BOOLEAN : ClickEvent(ticked)
  \/ Idle /\ ToggleNoteMode
  \/ Idle /\ Undo
  \/ Idle /\ Redo
  \/ \E t \in Texts : Idle /\ NoteEditorChange(t)
  \/ Idle /\ NoteEditorDelete
  \/ Idle /\ NoteEditorClose

SpecClock == InitNote /\ [][NextClock]_vars

\* The same handlers on a touch screen, where two fingers can meet in one
\* point: taps on one point, and touches that leave the offsets in place.
PinchLimits ==
  [push |-> PinchPush, notes |-> PinchNotes, pan |-> PinchPan, scale |-> PinchScale,
   minScale |-> 0, device |-> "touch"]

InitPinch == InitWith("part_000", FilesView, PinchLimits)

NextPinch ==
  \/ MouseDown(0, <<170, 150>>)
  \/ MouseUp(0)
  \/ Click
  \/ Idle /\ ToggleNoteMode
  \/ Idle /\ Undo
  \/ Idle /\ Redo
  \/ \E t \in Texts : Idle /\ NoteEditorChange(t)
  \/ Idle /\ NoteEditorDelete
  \/ \E p \in OwnerPoints : TouchStart(p)
  \/ \E i \in {1, 2}, p \in OwnerPoints : TouchMove(i, p)
  \/ \E i \in {1, 2} : TouchEnd(i)

SpecPinch == InitPinch /\ [][NextPinch]_vars

InitGeom == InitWith("App", FilesTwo, Limits(0, 0))

NextGeom ==
  \/ \E g \in Geometries : PickGeometry(g)
  \/ CallGetBoundsAndCenter

SpecGeom == InitGeom /\ [][NextGeom]_vars

\* --------------------------------------------------------------- properties
\* The screen projection of label i at the current view.
Proj(i) ==
  worldToScreen(bounds, viewState, inverterLabels[i].position[1], inverterLabels[i].position[2])

\* The step handles a click that was not preceded by a drag, outside note mode.
PlainClick == lastEvent' = "click" /\ ~hasMoved /\ ~noteMode

\* What the snapshots of a history hold.
Contents(h, hist) ==
  [i \in 1..Len(hist) |->
     [completedBoxes |-> hist[i].completedBoxes, notes |-> Deref(h, hist[i].notes)]]

\* The step flips the membership of id and of nothing else.
Flips(id) ==
  /\ (id \in completedBoxes') = (id \notin completedBoxes)
  /\ completedBoxes' \ {id} = completedBoxes \ {id}

\* C1: in part_000, after n >= 1 single-target toggles from the mounted state,
\* one undo leaves the completion set as it was after n - 1 toggles, and one
\* redo right after it restores the set as it was after the n-th toggle.
C1_UndoRedoAfterToggles ==
  /\ stage = "undone" => completedBoxes = toggleLog[Len(toggleLog) - 1]
  /\ stage = "redone" => completedBoxes = toggleLog[Len(toggleLog)]

C1_Witness == stage = "redone" /\ Len(toggleLog) >= 3

\* C2: in part_000 the history never holds more than 50 snapshots; after more
\* than 50 pushed mutations in a row it holds exactly 50 with the index at 49,
\* and undo never takes the index below 0.
C2_HistoryCapped ==
  /\ Len(history) <= HistoryCap
  /\ historyIndex >= 0
  /\ historyIndex <= Len(history) - 1
  /\ (stage = "toggles" /\ nPush > HistoryCap) =>
       (Len(history) = HistoryCap /\ historyIndex = HistoryCap - 1)

C2_Witness ==
  /\ nPush > HistoryCap
  /\ Len(history) = HistoryCap
  /\ historyIndex = 0
  /\ lastEvent = "undoAtStart"

\* C3: in part_000, when the index is below the last snapshot (after undos) and
\* an event leaves the collections with a shape other than the head's, the
\* snapshots beyond the index are dropped, the new snapshot becomes the tail and
\* the index points at it (so a redo has nothing to restore).
C3_BranchDiscarded ==
  [][(/\ variant = "part_000"
      /\ historyIndex >= 0
      /\ historyIndex < Len(history) - 1
      /\ lastEvent' \in {"click", "release", "other"}
      /\ \/ completedBoxes' /= history[historyIndex + 1].completedBoxes
         \/ Len(notes') /= Len(history[historyIndex + 1].notes))
     => /\ Len(history') = historyIndex + 2
        /\ \A i \in 1..(historyIndex + 1) :
             Contents(heap', history')[i] = Contents(heap, history)[i]
        /\ historyIndex' = Len(history') - 1
        /\ history'[Len(history')].completedBoxes = completedBoxes'
        /\ Deref(heap', history'[Len(history')].notes) = Deref(heap', notes')]_vars

\* A redo was tried right after a push that dropped a redo future.
C3_Witness ==
  /\ variant = "part_000"
  /\ Len(history) < nPush + 1
  /\ historyIndex = Len(history) - 1
  /\ lastEvent = "redoAtEnd"

\* C4 as stated: a plain click flips the membership of the label it hits, and a
\* second consecutive click at the same point and view returns the completion
\* set to what it was before the first.
C4_AsStated ==
  [][PlainClick =>
       LET hit == FirstHit(inverterLabels, bounds, viewState, pointer[1], pointer[2])
       IN /\ hit /= 0 => Flips(inverterLabels[hit].boxId)
          /\ (lastToggle /= Null /\ lastToggle.pt = pointer /\ lastToggle.view = viewState)
               => completedBoxes' = lastToggle.before]_vars

\* C4, amended: the same while the active mode is "test" (in "termination"
\* mode of part_000 a click toggles nothing).
C4_TogglePair ==
  [][(PlainClick /\ activeMode = "test") =>
       LET hit == FirstHit(inverterLabels, bounds, viewState, pointer[1], pointer[2])
       IN /\ hit /= 0 => Flips(inverterLabels[hit].boxId)
          /\ (lastToggle /= Null /\ lastToggle.pt = pointer /\ lastToggle.view = viewState)
               => completedBoxes' = lastToggle.before]_vars

C4_Witness == lastEvent = "click" /\ lastToggle /= Null /\ lastToggle.again

\* The projection of label i lies in the rectangle spanned by the marquee's
\* two corners, borders included.
InBox(i, box) ==
  /\ \/ box.startX <= Proj(i).x /\ Proj(i).x <= box.endX
     \/ box.endX <= Proj(i).x /\ Proj(i).x <= box.startX
  /\ \/ box.startY <= Proj(i).y /\ Proj(i).y <= box.endY
     \/ box.endY <= Proj(i).y /\ Proj(i).y <= box.startY

BoxIds(box) == {inverterLabels[i].boxId : i \in {j \in 1..Len(inverterLabels) : InBox(j, box)}}

\* C5 as stated: on the release of a marquee whose pointer went beyond the
\* threshold, the completion set becomes its union with the ids inside the
\* rectangle (add) or its difference with them (remove).
C5_AsStated ==
  [][(lastEvent' = "release" /\ selectionBoxRef /= Null /\ dragExceeded) =>
       completedBoxes' = IF selectionBoxRef.action = "remove"
                         THEN completedBoxes \ BoxIds(selectionBoxRef)
                         ELSE completedBoxes \cup BoxIds(selectionBoxRef)]_vars

\* C6: in part_000, an event after which the completion set equals the head
\* snapshot's and the note count equals the head's (the head being the snapshot
\* at the index an undo or redo has just moved to) leaves the history as it is
\* and the index on that head.
C6_NoDuplicateSnapshot ==
  [][(variant = "part_000" /\ historyIndex >= 0) =>
       LET j == IF lastEvent' = "undo" THEN historyIndex - 1
                ELSE IF lastEvent' = "redo" THEN historyIndex + 1
                ELSE historyIndex
       IN (/\ completedBoxes' = history[j + 1].completedBoxes
           /\ Len(notes') = Len(history[j + 1].notes))
          => (Contents(heap', history') = Contents(heap, history) /\ historyIndex' = j)]_vars

C6_Witness ==
  /\ variant = "part_000"
  /\ lastEvent = "undo"
  /\ nPush = 2
  /\ Len(history) = 3
  /\ historyIndex = 1

\* C7: undo at index 0 or with an empty history, and redo at the last index,
\* change neither the index, nor the history, nor the completion set, nor the
\* notes.
C7_UndoRedoAtEnds ==
  [][(lastEvent' \in {"undoAtStart", "redoAtEnd"}) =>
       /\ historyIndex' = historyIndex
       /\ Contents(heap', history') = Contents(heap, history)
       /\ completedBoxes' = completedBoxes
       /\ Deref(heap', notes') = Deref(heap, notes)]_vars

C7_Witness ==
  /\ variant = "part_000"
  /\ lastEvent = "undoAtStart"
  /\ historyIndex = 0
  /\ Len(history) >= 2

\* C8: in part_000 every stored snapshot still has the contents it was pushed
\* with, whatever undo, redo, toggles, marquee batches and note creations,
\* edits and deletions followed.
C8_SnapshotsImmutable == Contents(heap, history) = pushed

\* A note restored by an undo was edited while its snapshot is in the history.
C8_Witness ==
  /\ historyIndex >= 0
  /\ historyIndex < Len(history) - 1
  /\ Len(notes) = 1
  /\ Len(history[historyIndex + 1].notes) = 1
  /\ heap[notes[1]].text /= heap[history[historyIndex + 1].notes[1]].text

\* The labels before label i, in list order, within the click radius of p.
EarlierInRange(i, p) ==
  {j \in 1..(i - 1) : WithinRadius(p[1], p[2], Proj(j).x, Proj(j).y, ClickRadius)}

\* C9 as stated: a plain click exactly at the projection of a label flips that
\* label's own id.
C9_AsStated ==
  [][PlainClick =>
       \A i \in 1..Len(inverterLabels) :
         (pointer[1] = Proj(i).x /\ pointer[2] = Proj(i).y) =>
           Flips(inverterLabels[i].boxId)]_vars

\* C9, amended: in "test" mode a plain click exactly at the projection of a
\* label flips the id of the first label, in list order, within the click
\* radius of that point: the label's own id when no earlier label is in range.
C9_FirstInRange ==
  [][(PlainClick /\ activeMode = "test") =>
       \A i \in 1..Len(inverterLabels) :
         (pointer[1] = Proj(i).x /\ pointer[2] = Proj(i).y) =>
           LET earlier == EarlierInRange(i, pointer)
           IN IF earlier = {} THEN Flips(inverterLabels[i].boxId)
              ELSE Flips(inverterLabels[CHOOSE j \in earlier :
                                          \A k \in earlier : j <= k].boxId)]_vars

C9_Witness ==
  /\ lastEvent = "click"
  /\ lastToggle /= Null
  /\ lastToggle.pt = PtA
  /\ lastToggle.again
  /\ "A" \notin completedBoxes

\* C10 as stated: the click that follows a marquee gesture whose pointer went
\* beyond the threshold toggles nothing and does nothing to the notes.
C10_AsStated ==
  [][(lastEvent' = "click" /\ dragExceeded) =>
       /\ completedBoxes' = completedBoxes
       /\ Deref(heap', notes') = Deref(heap, notes)
       /\ noteEditor' = noteEditor]_vars

\* C11: a release or a leave that ends a marquee whose pointer never went
\* beyond the threshold clears the marquee and leaves the completion set, the
\* notes and the history as they are.
C11_SmallDragNoBatch ==
  [][(lastEvent' = "release" /\ selectionBoxRef /= Null /\ ~dragExceeded) =>
       /\ selectionBoxRef' = Null
       /\ completedBoxes' = completedBoxes
       /\ Deref(heap', notes') = Deref(heap, notes)
       /\ Contents(heap', history') = Contents(heap, history)
       /\ historyIndex' = historyIndex]_vars

\* A marquee that went from PtA to PtNear over a completion set without A has
\* been released.
C11_Witness ==
  /\ lastEvent = "release"
  /\ clickPending
  /\ pointer = PtNear
  /\ selectionBoxRef = Null
  /\ ~noteMode
  /\ ~hasMoved
  /\ "A" \notin completedBoxes

\* C12 as stated: panning and a marquee are never active together.
C12_AsStated == ~(isPanning /\ selectionBoxRef /= Null)

\* C13: with the bounds loaded and a positive scale, a world position projected
\* to the screen by worldToScreen, which yields ((x - centerX) * scale +
\* offsetX, (centerY - y) * scale + offsetY), and taken back by screenToWorld
\* is the same world position. (Numbers are exact here; the doubles of the
\* program agree up to rounding.)
C13_RoundTrip ==
  (bounds /= Null /\ viewState.scale > 0) =>
    \A w \in WorldPoints :
      LET s == worldToScreen(bounds, viewState, w[1], w[2])
      IN /\ s.x = (w[1] - bounds.centerLng) * viewState.scale + viewState.offsetX
         /\ s.y = (bounds.centerLat - w[2]) * viewState.scale + viewState.offsetY
         /\ screenToWorld(bounds, viewState, s.x, s.y) = w

C13_Witness ==
  /\ bounds /= Null
  /\ viewState.scale > 0
  /\ viewState.scale /= viewState.baseScale
  /\ viewState.offsetX /= canvas.width \div 2
  /\ viewState.offsetY /= canvas.height \div 2

C15_InitialFit ==
  [][(lastEvent' = "load" /\ bounds' /= Null) =>
       LET b == bounds'
           v == viewState'
           aw == canvas.width - 100
           ah == canvas.height - 100
       IN /\ v.baseScale = JsMin(JsDiv(aw, b.width), JsDiv(ah, b.height))
          /\ (b.width > 0 /\ b.height > 0) =>
               v.baseScale * b.width * b.height = Min2(aw * b.height, ah * b.width)
          /\ v.scale = v.baseScale
          /\ v.offsetX * 2 = canvas.width
          /\ v.offsetY * 2 = canvas.height
          /\ (/\ b.minLng = 0 /\ b.maxLng = 10 /\ b.minLat = 0 /\ b.maxLat = 10
              /\ canvas = [width |-> 500, height |-> 500]) =>
               /\ v.baseScale = 40
               /\ worldToScreen(b, v, 5, 5) = [x |-> 250, y |-> 250]]_vars

C15_Witness ==
  /\ lastEvent = "load"
  /\ bounds /= Null
  /\ bounds.width = 10
  /\ bounds.height = 10
  /\ canvas = [width |-> 500, height |-> 500]
  /\ viewState.scale = 40
  /\ layers /= FileSet

\* C16 as stated: after the fit, the scale stays positive under every sequence
\* of wheel zooms, pinch zooms (two fingers on one spot included), pans and
\* resizes.
C16_AsStated == viewState.scale > 0

\* C17 as stated: a resize of the viewport stores the fit of the bounds to the
\* new canvas size (baseScale recomputed, scale reset to it, offsets at the new
\* centre), whatever pan and zoom were in effect.
C17_AsStated ==
  [][(lastEvent' = "resize" /\ bounds /= Null) =>
       viewState' = FitView(bounds, canvas')]_vars

\* C18 as stated: during a middle-button pan that began at p0 the offsets have
\* changed by the pointer's position minus p0 (offsets minus pointer is what it
\* was at the press), and scale and baseScale are what they were.
C18_AsStated ==
  (isPanning /\ panFrom /= Null) =>
    /\ viewState.offsetX - pointer[1] = panFrom.dx
    /\ viewState.offsetY - pointer[2] = panFrom.dy
    /\ viewState.scale = panFrom.scale
    /\ viewState.baseScale = panFrom.baseScale

\* The same while no marquee is active.
C18_NoMarquee == selectionBoxRef = Null => C18_AsStated

\* The files that arrived, and every coordinate in them.
Arrived == {f \in FileSet : fetched[f] = "ok"}
ArrivedCoords ==
  UNION {served[f].coords \cup
           {served[f].labels[i].position : i \in 1..Len(served[f].labels)} : f \in Arrived}

\* C19: the load degrades per collection. Whatever subset of the requests
\* fails, once the load is over the layers are exactly the collections that
\* arrived, the bounds are those of their coordinates and the labels those of
\* inv_id if it arrived; the bounds and the fit are set only after every
\* request has settled; and the loading flag becomes false in the end.
C19_LoadDegrades ==
  /\ [](~loading =>
          /\ layers = Arrived
          /\ bounds = ComputeBounds(ArrivedCoords)
          /\ inverterLabels = IF "inv_id" \in Arrived THEN served.inv_id.labels ELSE <<>>)
  /\ []((bounds /= Null \/ viewState /= InitialView \/ layers /= {}) =>
          \A f \in FileSet : fetched[f] /= "pending")
  /\ [](loading => bounds = Null /\ viewState = InitialView)
  /\ <>[](~loading)

C19_Witness ==
  /\ ~loading
  /\ fetched["inv_id"] = "failed"
  /\ fetched["poly"] = "failed"
  /\ layers = {"table_id", "boudnry_line"}
  /\ bounds /= Null
  /\ bounds.width = 200
  /\ viewState /= InitialView

\* C20 as stated: bounds without width or without height are refused by the
\* fit, so the stored view never has a scale that is zero, negative, infinite
\* or not a number.
C20_AsStated ==
  /\ IsFinite(viewState.scale)
  /\ viewState.scale > 0
  /\ (bounds /= Null /\ (bounds.width = 0 \/ bounds.height = 0)) => viewState = InitialView

\* The geometries whose coordinate array is empty.
EmptyCoordinates(g) ==
  \/ g.type = "LineString" /\ Len(g.coordinates) = 0
  \/ g.type = "Polygon" /\ Len(g.coordinates) = 0
  \/ g.type = "Polygon" /\ Len(g.coordinates) > 0 /\ Len(g.coordinates[1]) = 0

\* The line or the outer ring of a geometry that has one.
OuterCoords(g) == IF g.type = "LineString" THEN g.coordinates ELSE g.coordinates[1]

\* C21 as stated: getBoundsAndCenter returns null, and throws nothing, for a
\* line without vertices, a polygon with an empty outer ring and a polygon
\* without rings; for a non-empty line or outer ring it returns the mean of
\* the vertices as center and the area of their bounding box as area.
C21_AsStated ==
  summary /= Null =>
    /\ EmptyCoordinates(geometry) => summary = ReturnedNull
    /\ (geometry.type \in {"LineString", "Polygon"} /\ ~EmptyCoordinates(geometry)) =>
         LET c == OuterCoords(geometry)
             n == Len(c)
             xs == {c[i][1] : i \in 1..n}
             ys == {c[i][2] : i \in 1..n}
         IN /\ summary.kind = "value"
            /\ summary.center[1] * n = SeqSum([i \in 1..n |-> c[i][1]])
            /\ summary.center[2] * n = SeqSum([i \in 1..n |-> c[i][2]])
            /\ summary.area = (SetMax(xs) - SetMin(xs)) * (SetMax(ys) - SetMin(ys))

\* The same without the polygon that has no rings.
C21_WithRing ==
  (geometry /= Null /\ ~(geometry.type = "Polygon" /\ Len(geometry.coordinates) = 0)) =>
    C21_AsStated

\* A step of the interaction engine that changes the shape of the document:
\* the completion set or the number of notes.
ShapeChanged ==
  /\ lastEvent' \notin {"undo", "undoAtStart", "redo", "redoAtEnd"}
  /\ completedBoxes' /= completedBoxes \/ Len(notes') /= Len(notes)

\* C22 as stated: in src/src/App.jsx every toggle, batch, note creation and
\* note deletion that changes the shape adds a history entry holding the new
\* document, with historyIndex at it (so that undo restores the one before).
C22_AsStated ==
  [][(variant = "App" /\ ShapeChanged) =>
       /\ Len(history') = Len(history) + 1
       /\ historyIndex' = Len(history') - 1
       /\ Contents(heap', history')[Len(history')] =
            [completedBoxes |-> completedBoxes', notes |-> Deref(heap', notes')]]_vars

\* The mouse-down of button b.
Pressing(b) == b \notin pressed /\ b \in pressed'

\* A press, move, release or leave of a gesture in which only the middle
\* button is held.
MiddleOnlyStep ==
  /\ pressed \cup pressed' = {1}
  /\ lastEvent' \in {"other", "release"}

\* C23: the middle button never starts a marquee. Its mouse-down leaves the
\* selection box as it is (null, when no marquee was under way), a gesture of
\* middle press, moves and release alone keeps the selection box null and the
\* completion set unchanged, and in note mode neither a left nor a right
\* mouse-down starts a marquee.
C23_PanNeverMarquee ==
  [][/\ Pressing(1) => selectionBoxRef' = selectionBoxRef
     /\ MiddleOnlyStep =>
          /\ selectionBoxRef = Null
          /\ selectionBoxRef' = Null
          /\ completedBoxes' = completedBoxes
     /\ (noteMode /\ (Pressing(0) \/ Pressing(2))) =>
          selectionBoxRef' = selectionBoxRef /\ selectionBoxRef' = Null]_vars

C23_Witness ==
  /\ lastEvent = "release"
  /\ pressed = {}
  /\ ~clickPending
  /\ hasMoved
  /\ viewState.offsetX /= canvas.width \div 2
  /\ selectionBoxRef = Null
  /\ completedBoxes = {}

\* ----------------------------------------------------------------------- C24
\* The document as the handlers own it: the completion set, the notes, the
\* snapshots and the index.
DocUntouched ==
  /\ completedBoxes' = completedBoxes
  /\ Deref(heap', notes') = Deref(heap, notes)
  /\ Contents(heap', history') = Contents(heap, history)
  /\ historyIndex' = historyIndex

\* A wheel zoom or a pinch zoom, a touch pan, or a mouse pan (the only pointer
\* move that changes the view).
ViewStep == lastEvent' \in {"zoom", "touch"} \/ viewState' /= viewState

\* A click (toggle, note creation, editor opening), a release (marquee batch),
\* an undo, a redo, or an edit or deletion in the note editor.
DocStep ==
  \/ lastEvent' \in {"click", "release", "undo", "undoAtStart", "redo", "redoAtEnd"}
  \/ ~DocUntouched

\* C24: state ownership. Wheel zoom, mouse pan, touch pan and pinch zoom leave
\* the completion set, the notes, the history and the history index unchanged;
\* completion toggles, marquee batches, note creation, note edits, note
\* deletion, undo and redo leave the view (offsets and scale) unchanged.
C24_Ownership ==
  [][/\ ViewStep => DocUntouched
     /\ DocStep => viewState' = viewState]_vars

\* A state with a moved view and a changed document behind it, reached by an
\* undo: both families of handlers have acted.
C24_Witness ==
  /\ lastEvent = "undo"
  /\ viewState /= FitView(bounds, canvas)
  /\ Len(history) >= 2
  /\ historyIndex < Len(history) - 1

\* ----------------------------------------------------------------------- C25
\* A click that handleCanvasClick handles in note mode (a click after a pan is
\* skipped before the mode is looked at).
NoteModeClick == clickPending /\ lastEvent' = "click" /\ noteMode /\ ~hasMoved

\* Note i projects strictly within 15 px of the pointer.
NearNote(i) ==
  LET n == heap[notes[i]]
      s == worldToScreen(bounds, viewState, n.position[1], n.position[2])
  IN WithinRadius(pointer[1], pointer[2], s.x, s.y, NoteRadius)

\* The click passes the minimum-distance guard: no note lies within 0.00005
\* of the clicked world position.
PassesGuard ==
  \A i \in 1..Len(notes) :
    ~Closer(heap[notes[i]].position,
            screenToWorld(bounds, viewState, pointer[1], pointer[2]))

\* The click opens the editor for note i and creates nothing.
OpensEditorFor(i) ==
  /\ noteEditor' = [noteId |-> heap[notes[i]].id]
  /\ Deref(heap', notes') = Deref(heap, notes)

\* The click appends exactly one note with empty text at the clicked world
\* position.
AppendsOneNote ==
  /\ Len(notes') = Len(notes) + 1
  /\ SubSeq(Deref(heap', notes'), 1, Len(notes)) = Deref(heap, notes)
  /\ heap'[notes'[Len(notes')]].text = ""
  /\ heap'[notes'[Len(notes')]].position =
       screenToWorld(bounds, viewState, pointer[1], pointer[2])

NoteClickRule(editorAfter) ==
  NoteModeClick =>
    /\ completedBoxes' = completedBoxes
    /\ \A i \in 1..Len(notes) :
         (NearNote(i) /\ \A j \in 1..(i - 1) : ~NearNote(j)) => OpensEditorFor(i)
    /\ ((\A i \in 1..Len(notes) : ~NearNote(i)) /\ PassesGuard) =>
         AppendsOneNote /\ editorAfter

\* C25: a note-mode click strictly within 15 px of an existing note's
\* projection opens the editor for the first such note in list order and
\* creates no note; a click that hits no note and passes the minimum-distance
\* guard appends exactly one note with empty text at the clicked world position
\* and leaves the editor closed; no note-mode click changes the completion set.
C25_AsStated == [][NoteClickRule(noteEditor' = Null)]_vars

\* C25, amended: the creating click does not touch the editor, which stays
\* closed when it was closed and open when it was open.
C25_NoteClick == [][NoteClickRule(noteEditor' = noteEditor)]_vars

\* A note-mode click has opened the editor on the first of two notes that lie
\* 20 px apart, after a click had appended the second one.
C25_Witness ==
  /\ lastEvent = "click"
  /\ noteMode
  /\ Len(notes) = 2
  /\ heap[notes[2]].text = ""
  /\ noteEditor /= Null
  /\ noteEditor.noteId = heap[notes[1]].id

\* ----------------------------------------------------------------------- C26
\* Two world positions at least 0.00005 apart: a NaN distance is not at least
\* anything, an infinite one is, and whole coordinates are when they differ.
Apart(a, b) ==
  LET dx == JsSub(a[1], b[1])
      dy == JsSub(a[2], b[2])
  IN /\ dx /= NaN /\ dy /= NaN
     /\ ~IsFinite(dx) \/ ~IsFinite(dy) \/ a /= b

\* C26: no near-duplicate notes. In every state reached by note creations,
\* deletions, text edits, undo and redo, any two distinct notes are at least
\* 0.00005 world units apart.
C26_AsStated ==
  \A i, j \in 1..Len(notes) :
    i /= j => Apart(heap[notes[i]].position, heap[notes[j]].position)

\* The same, as long as no pinch has brought the scale to zero.
C26_PositiveScale == viewState.scale > 0 => C26_AsStated

\* ----------------------------------------------------------------------- C27
\* A step of the panel while the editor is open and no gesture is under way:
\* the editor's textarea and buttons are among them.
EditorOpenStep ==
  noteEditor /= Null /\ pressed = {} /\ ~clickPending /\ lastEvent' = "other"

\* The notes without the editor's note.
WithoutEdited ==
  SelectSeq(Deref(heap, notes), LAMBDA n : n.id /= noteEditor.noteId)

\* The step is the editor's deletion: exactly the note with the editor's id is
\* gone, the others and the completion set are as they were, and the editor is
\* closed.
DeletesEdited ==
  /\ Len(notes') = Len(notes) - 1
  /\ Deref(heap', notes') = WithoutEdited
  /\ completedBoxes' = completedBoxes
  /\ noteEditor' = Null

\* The step is a text edit: only the text of the editor's note may differ.
EditsText ==
  /\ Len(notes') = Len(notes)
  /\ \A i \in 1..Len(notes) :
       LET old == heap[notes[i]]
           new == heap'[notes'[i]]
       IN IF old.id = noteEditor.noteId THEN new = [old EXCEPT !.text = new.text]
          ELSE new = old
  /\ completedBoxes' = completedBoxes

MarqueeMove ==
  /\ selectionBoxRef /= Null
  /\ selectionBoxRef' /= Null
  /\ pressed' = pressed
  /\ pointer' /= pointer
  /\ lastEvent' = "other"

\* The release (or the leave) that completes a marquee.
MarqueeRelease == selectionBoxRef /= Null /\ lastEvent' = "release"

\* C28: transient drag states are never recorded (part_000). Between the
\* mouse-down that starts a marquee and its release, pointer moves change
\* neither the completion set nor the history length nor the history index; a
\* completed marquee appends at most one snapshot.
C28_DragNotRecorded ==
  [][variant = "part_000" =>
       /\ MarqueeMove => /\ completedBoxes' = completedBoxes
                         /\ Len(history') = Len(history)
                         /\ historyIndex' = historyIndex
                         /\ nPush' = nPush
       /\ MarqueeRelease => /\ nPush' <= nPush + 1
                            /\ Len(history') <= Len(history) + 1]_vars

\* One marquee over both labels has been released: both boxes are complete and
\* the history holds the mount snapshot and one more.
C28_Witness ==
  /\ variant = "part_000"
  /\ lastEvent = "release"
  /\ hasMoved
  /\ completedBoxes = {"A", "B"}
  /\ Len(history) = 2
  /\ nPush = 1

\* ----------------------------------------------------------------------- C29
\* A touch end that takes the touch count below two.
DropsBelowTwo == Len(touches') < Len(touches) /\ Len(touches') < 2

\* A move while two fingers are down.
TwoFingerMove == Len(touches) = 2 /\ Len(touches') = 2 /\ touches' /= touches

\* C29: pinch tracking resets when the touch count drops below two. After such
\* a touch end the reference distance is 0, and it stays 0 while fewer than
\* two fingers are down, so the zoom factor of any later two-finger move is
\* computed only against a reference captured after that touch end: a
\* two-finger move with reference 0 changes neither the scale nor the offsets
\* and captures the distance, and a move that zooms divides by the distance the
\* two fingers had before it.
C29_PinchResets ==
  [][/\ DropsBelowTwo => lastPinchDist' = 0
     /\ Len(touches) < 2 => lastPinchDist = 0
     /\ TwoFingerMove =>
          /\ lastPinchDist' = Dist(touches'[1], touches'[2])
          /\ IF lastPinchDist = 0 THEN viewState' = viewState
             ELSE /\ lastPinchDist = Dist(touches[1], touches[2])
                  /\ viewState' =
                       ZoomView(viewState,
                                (touches'[1][1] + touches'[2][1]) \div 2,
                                (touches'[1][2] + touches'[2][2]) \div 2,
                                Dist(touches'[1], touches'[2]), lastPinchDist)]_vars

\* After a pinch that zoomed, one finger has been lifted: one finger is left
\* and the reference is 0.
C29_Witness ==
  /\ lastEvent = "touch"
  /\ Len(touches) = 1
  /\ lastPinchDist = 0
  /\ viewState.scale /= viewState.baseScale

\* ----------------------------------------------------------------------- C30
\* The labels strictly within 30 px of the pointer.
InRange ==
  {i \in 1..Len(inverterLabels) :
     WithinRadius(pointer[1], pointer[2], Proj(i).x, Proj(i).y, ClickRadius)}

\* The ids whose membership the step changes.
Changed == (completedBoxes' \ completedBoxes) \cup (completedBoxes \ completedBoxes')

\* C30: first match wins in the completion hit-test. A single click outside
\* note mode changes the membership of at most one id, namely the id of the
\* first label in list order whose projection is strictly within 30 px of the
\* click, even when a later label is closer; when no label is within that
\* radius the completion set is unchanged. (In "test" mode a click that follows
\* no drag does flip that id.)
C30_FirstMatchWins ==
  [][(lastEvent' = "click" /\ ~noteMode) =>
       /\ Cardinality(Changed) <= 1
       /\ Changed /= {} =>
            InRange /= {} /\ Changed = {inverterLabels[SetMin(InRange)].boxId}
       /\ InRange = {} => completedBoxes' = completedBoxes
       /\ (InRange /= {} /\ activeMode = "test" /\ ~hasMoved) =>
            Flips(inverterLabels[SetMin(InRange)].boxId)]_vars

\* A click exactly on label B, 20 px from label A, has toggled A: the first
\* label in range won although B was closer.
C30_Witness ==
  /\ lastEvent = "click"
  /\ lastToggle /= Null
  /\ lastToggle.pt = PtB
  /\ lastToggle.before = {}
  /\ completedBoxes = {"A"}

\* ----------------------------------------------------------------------- C31
\* C31: the history head invariant of part_000. In every settled state after
\* mount 0 <= historyIndex <= Len(history) - 1 <= 49, and the snapshot at
\* historyIndex holds the ids of the completion set and as many notes as the
\* note list. (Every state of the model is settled: the history effect is part
\* of the step that changed the collections. The invariant also holds in
\* SpecCap, where the history reaches the cap.)
C31_HistoryHead ==
  variant = "part_000" =>
    /\ 0 <= historyIndex
    /\ historyIndex <= Len(history) - 1
    /\ Len(history) - 1 <= HistoryCap - 1
    /\ history[historyIndex + 1].completedBoxes = completedBoxes
    /\ Len(history[historyIndex + 1].notes) = Len(notes)

\* An undo has stepped back from a snapshot with a box to one with a note and
\* no box: the head is in the middle of the history.
C31_Witness ==
  /\ variant = "part_000"
  /\ lastEvent = "undo"
  /\ historyIndex = 1
  /\ Len(history) = 3
  /\ Len(notes) = 1
  /\ completedBoxes = {}

\* ----------------------------------------------------------------------- C32
\* The document after an undo immediately followed by a redo.
UndoThenRedo == RedoDoc(UndoDoc(Doc))

\* C32: undo followed immediately by redo is the identity on the annotation
\* state of part_000. From any reachable state with historyIndex > 0, states
\* reached by editing a note's text included, undo then redo leaves the
\* completion set and every note's id, position and text as they were before
\* the undo.
C32_AsStated ==
  (variant = "part_000" /\ historyIndex > 0) =>
    /\ UndoThenRedo.completedBoxes = completedBoxes
    /\ Deref(UndoThenRedo.heap, UndoThenRedo.notes) = Deref(heap, notes)

\* The same for the states in which no note text differs from the text in the
\* snapshot at the index.
C32_NoTextEdit ==
  (/\ variant = "part_000"
   /\ historyIndex > 0
   /\ Deref(heap, notes) = Deref(heap, history[historyIndex + 1].notes)) =>
    /\ UndoThenRedo.completedBoxes = completedBoxes
    /\ Deref(UndoThenRedo.heap, UndoThenRedo.notes) = Deref(heap, notes)

\* ----------------------------------------------------------------------- C33
\* The ids of the loaded labels.
LabelIds == {inverterLabels[i].boxId : i \in 1..Len(inverterLabels)}

\* C33: the completion set only ever contains ids of loaded labels. After any
\* sequence of clicks, marquee batches, undo and redo every id in it is the
\* boxId of some label, so the Done counter (its size) never exceeds the label
\* total and the Remain counter (label count minus its size) is never negative.
C33_OnlyLabelIds ==
  /\ completedBoxes \subseteq LabelIds
  /\ Cardinality(completedBoxes) <= Len(inverterLabels)
  /\ Len(inverterLabels) - Cardinality(completedBoxes) >= 0

\* Every label is complete after a marquee over both, reached again by a redo:
\* Done equals the total and Remain is 0.
C33_Witness ==
  /\ lastEvent = "redo"
  /\ completedBoxes = LabelIds
  /\ Len(inverterLabels) = 2
  /\ Len(inverterLabels) - Cardinality(completedBoxes) = 0

\* ----------------------------------------------------------------------- C34
\* C34: an open note editor always refers to an existing note. In every
\* reachable state where the editor is open the note list holds a note whose
\* id is the editor's noteId, after any sequence of note clicks, edits,
\* deletions, undo and redo.
C34_AsStated ==
  noteEditor /= Null =>
    \E i \in 1..Len(notes) : heap[notes[i]].id = noteEditor.noteId

\* The same at the moment the editor opens: the click that opens it names a
\* note of the list.
C34_WhenOpened ==
  [][(noteEditor' /= Null /\ noteEditor' /= noteEditor) =>
       \E i \in 1..Len(notes') : heap'[notes'[i]].id = noteEditor'.noteId]_vars

\* ---------------------------------------------------------------- C35
\* A step that zooms the view (by the wheel or by a pinch).
ZoomStep == zoomAt' /= Null /\ viewState' /= viewState

\* The zoom of the step applied to the view the step started from.
ZoomInOrder == ZoomView(viewState, zoomAt'.x, zoomAt'.y, zoomAt'.num, zoomAt'.den)

\* C35: view updates compose across events: a wheel zoom or a pinch zoom that
\* follows a pan or a zoom before the component has re-rendered leaves the
\* view that the two operations give when applied in order, i.e. the zoom
\* applied to the view the earlier event left.
C35_AsStated ==
  [][(renderedView /= Null /\ ZoomStep) => viewState' = ZoomInOrder]_vars

\* What the code keeps: a zoom is applied to the view of the last render, so it
\* composes with the events before it when the component has re-rendered
\* since, and otherwise replaces the scale and offsets they left.
C35_ZoomOfRendered ==
  [][ZoomStep =>
       /\ viewState'.scale = ZoomView(ClosureView, zoomAt'.x, zoomAt'.y,
                                      zoomAt'.num, zoomAt'.den).scale
       /\ renderedView = Null => viewState' = ZoomInOrder]_vars

\* ---------------------------------------------------------------- C36
\* The ids of the notes in the list, in list order.
NoteIds(h, ns) == [i \in 1..Len(ns) |-> h[ns[i]].id]

\* No two entries of the sequence are equal.
NoRepeat(ids) == \A i, j \in 1..Len(ids) : i /= j => ids[i] /= ids[j]

\* C36: note ids are unique: no two notes of the list share an id, also when
\* two notes are created without the clock advancing between the two clicks.
C36_AsStated == variant = "part_000" => NoRepeat(NoteIds(heap, notes))

\* What the code keeps: a click that finds the clock moved on since the last
\* creation leaves distinct ids distinct.
C36_WhenClockAdvances ==
  [][(lastEvent' = "click" /\ NoRepeat(NoteIds(heap, notes))
        /\ \A i \in 1..Len(notes) : heap[notes[i]].id < now)
       => NoRepeat(NoteIds(heap', notes'))]_vars

\* The consequence the claim draws: the editor's Delete (the one step that
\* closes the editor and shortens the list) removes exactly one note. It holds
\* while the clock advances between creations (SpecNote) and fails with two
\* notes under one id (SpecClock), where Delete removes both.
C36_DeleteRemovesOne ==
  [][(noteEditor /= Null /\ noteEditor' = Null /\ Len(notes') /= Len(notes))
       => Len(notes') = Len(notes) - 1]_vars

\* ---------------------------------------------------------------- C37
\* A step of the canvas's pointer handlers (press, move, release, leave,
\* click): every step but the keyboard's undo and redo.
PointerStep == lastEvent' \notin {"undo", "redo"}

\* C37: while the active mode is termination, no pointer interaction on the
\* canvas (click, left drag, right drag, middle drag) changes the completed
\* set.
C37_AsStated ==
  [][(variant = "part_000" /\ activeMode = "termination" /\ PointerStep)
       => completedBoxes' = completedBoxes]_vars

\* What the code keeps: in termination mode a click, a press and a move leave
\* the completed set alone; only the release of a marquee drag, which
\* handleMouseUp applies without looking at the mode, changes it.
C37_OnlyMarqueeRelease ==
  [][(variant = "part_000" /\ activeMode = "termination" /\ PointerStep
        /\ completedBoxes' /= completedBoxes)
       => /\ lastEvent' = "release"
          /\ selectionBoxRef /= Null
          /\ hasMoved]_vars

====
